---- MODULE Spec2Model ----
(***************************************************************************)
(* Model of the lazy enumeration engine of tynq (@tynq/core):              *)
(*   - EnumeratorStateMachine (iterators/enumerator-state-machine.ts)      *)
(*   - IndexableIterator, the cursor of arrays                             *)
(*   - the operators of Enumerable (enumerable/enumerable.ts)              *)
(* The client is any program calling the public API: it builds operator    *)
(* results over one backing array, asks them for cursors, advances and     *)
(* resets the cursors and drains them with toArray.                        *)
(***************************************************************************)
EXTENDS Integers, Sequences, FiniteSets, TLC

\* ---------------------------------------------------------------- bounds
MaxLen == 2        \* longest backing array
MaxVal == 3        \* array elements are 1..MaxVal
MaxObj == 2        \* operator results the client creates
MaxPulled == 3     \* cap on the per-pass history of one cursor
MaxCount == 2      \* largest count given to take and takeLast
MaxChanges == 2    \* groupings and elements the client adds to a lookup
MaxSize == 2       \* largest size given to chunk and chunkOrDefault
MaxPast == 2       \* moveNext() calls made on an array cursor after its end
Consumers == {1, 2}

\* ------------------------------------------------------------- constants
Stop == -1               \* EnumeratorState.Stop
Setup == 0               \* EnumeratorState.Setup
HasNextElement == 1      \* EnumeratorState.HasNextElement
Undefined == -10         \* the value of a field never assigned
DONE == -20              \* the DONE symbol
Null == -40              \* null
THROWN == -30            \* a call that ended by throw; the error is in w.err

Values == 1..MaxVal
Arrays == UNION {[1..n -> Values] : n \in 0..MaxLen}
Objs == 1..MaxObj

\* The heap has room for one operator result more, which only the programs
\* that build three of them use.
Slots == 1..(MaxObj + 1)

\* The elements the caller gives to append and prepend.
Given == {1, MaxVal}

\* The element on which the caller's callbacks throw.
ThrowVal == MaxVal

VARIABLES
  arr,     \* the backing array (a native Array patched as IEnumerable)
  heap,    \* the EnumeratorStateMachine objects, by identity
  cons,    \* cons[c]: what getEnumerator() returned to consumer c (0: nothing)
  consq,   \* consq[c]: the sequence consumer c asked
  last,    \* the API call just made, with what it did and returned
  hist,    \* the run of toArray()/reset() calls made without a moveNext() between
  obs,     \* what the callers have observed of each cursor so far
  lookup   \* the Lookup the client has made, and what it was when made

vars == <<arr, heap, cons, consq, last, hist, obs, lookup>>

\* ------------------------------------------------------ caller's callbacks
\* predicate: (element) => element > 1, throwing on ThrowVal
predicate(v) == IF v = ThrowVal THEN THROWN ELSE IF v > 1 THEN 1 ELSE 0

\* selector: (item) => item + 1, throwing on ThrowVal
selector(v) == IF v = ThrowVal THEN THROWN ELSE v + 1

\* collectionSelector: (x) => the array of x's children, x having none, one
\* or two of them
collectionSelector(v) == [k \in 1..((v - 1) % 3) |-> 10 * v + k]

\* keySelector of selectMany: the default, (x) => x
keySelector(v) == v

\* outerKeySelector: (o) => o
outerKeySelector(v) == v

\* innerKeySelector: (i) => Math.max(i, 2)
innerKeySelector(v) == IF v < 2 THEN 2 ELSE v

\* resultSelector of innerJoin: (o, i) => 10 * o + i
resultSelector(o, i) == 10 * o + i

\* the digits of a sequence of elements, read as one number
RECURSIVE Digits(_)
Digits(items) ==
  IF items = <<>> THEN 0
  ELSE 10 * Digits(SubSeq(items, 1, Len(items) - 1)) + items[Len(items)]

\* resultSelector of groupJoin: (o, group) => 100 * o + the digits of group
groupResultSelector(o, items) == 100 * o + Digits(items)

\* The error a callback throws on element v.
ErrorOf(fn, v) == [by |-> fn, on |-> v]
NoError == [by |-> "none", on |-> 0]

\* ThrowHelper: the error of kind kind, thrown by the library itself
ThrowHelper(kind) == [by |-> kind, on |-> 0]

\* ---------------------------------------------------------------- objects
NoE == [kind |-> "none", idx |-> -1, id |-> 0]

\* The second cursor a closure may hold: e2 of chain, collectionEnumerator of
\* selectMany, eGrouping of innerJoin; items is the array it runs over when
\* that array is not the backing array.
NoE2 == [kind |-> "none", idx |-> -1, id |-> 0, items |-> <<>>]

\* A slot of the heap not yet allocated.
NoObj == [op |-> "none", src |-> 0, state |-> Setup, current |-> Undefined,
          e |-> NoE, pulled |-> <<>>, calls |-> <<>>, out |-> <<>>,
          second |-> 0, count |-> 0, element |-> 0,
          e2 |-> NoE2, pulled2 |-> <<>>, i |-> 0, idx |-> 0, indexToReturn |-> 0,
          hasReturned |-> FALSE, isFirst |-> TRUE,
          outerElement |-> Undefined, lookup |-> <<>>,
          previousElements |-> <<>>, exceptValues |-> <<>>, buffer |-> <<>>,
          size |-> 0, defaultValue |-> Undefined, length |-> 0, values |-> <<>>,
          by |-> ""]

\* EnumeratorStateMachine.create(setup): a new machine in state Setup that
\* only remembers its setup function (here: the operator and its source).
EnumeratorStateMachineImpl(op, src) == [NoObj EXCEPT !.op = op, !.src = src]

\* The world a call runs in: the heap, the trace of what the call has invoked
\* so far, in order, the error in flight, and the backing array as the call
\* leaves it.
World(h) == [h |-> h, tr |-> <<>>, err |-> NoError, arr |-> arr]

\* One invocation made during a call: ev is the method invoked, on the object
\* it is invoked on (0: the array or a cursor of the array), arg and res the
\* argument and result of a callback.
Ev(ev, on, arg, res) == [ev |-> ev, on |-> on, arg |-> arg, res |-> res]
Log(w, ev, on) == [w EXCEPT !.tr = Append(@, Ev(ev, on, 0, 0))]

\* new IndexableIterator(source): _idx = -1
IndexableIterator == [kind |-> "idx", idx |-> -1, id |-> 0]

\* source.getEnumerator(): an array builds a new IndexableIterator, an
\* EnumeratorStateMachine returns itself.
getEnumerator(w, src) ==
  [w |-> Log(w, "getEnumerator", src),
   e |-> IF src = 0 THEN IndexableIterator
                    ELSE [kind |-> "sm", idx |-> -1, id |-> src]]

\* IndexableIterator.current: this._source[this._idx]
indexCurrent(idx) == IF idx + 1 \in DOMAIN arr THEN arr[idx + 1] ELSE Undefined

\* A callback call: logged, and its throw recorded as the error in flight.
invoke(w, id, fn, v) ==
  LET r == IF fn = "predicate" THEN predicate(v) ELSE selector(v)
      w1 == [w EXCEPT !.tr = Append(@, Ev(fn, id, v, r)),
                      !.h[id].calls = Append(@, v)]
  IN [w |-> IF r = THROWN THEN [w1 EXCEPT !.err = ErrorOf(fn, v)] ELSE w1,
      res |-> r]

RECURSIVE moveNext(_, _), whereNext(_, _), selectNext(_, _)

\* e.moveNext() on the cursor held by the closure of machine id.
eMoveNext(w, id) ==
  LET e == w.h[id].e IN
  IF e.kind = "idx"
    THEN LET i == e.idx + 1 IN
         [w |-> [Log(w, "moveNext", 0) EXCEPT !.h[id].e.idx = i],
          ret |-> IF i >= Len(arr) THEN "false" ELSE "true"]
    ELSE moveNext(w, e.id)

\* e.current on the cursor held by the closure of machine id.
eCurrent(w, id) ==
  LET e == w.h[id].e IN
  IF e.kind = "idx" THEN indexCurrent(e.idx) ELSE w.h[e.id].current

\* whereTest with the test inverted: the element is returned when the
\* predicate is false
whereTestInverted(w, id, c, r) ==
  IF r.res = THROWN THEN [w |-> r.w, val |-> THROWN]
  ELSE IF r.res = 0 THEN [w |-> r.w, val |-> c]
  ELSE whereNext(r.w, id)

\* what the step does with the element when the predicate call has returned
whereTest(w, id, c, r) ==
  IF r.res = THROWN THEN [w |-> r.w, val |-> THROWN]
  ELSE IF r.res = 1 THEN [w |-> r.w, val |-> c]
  ELSE whereNext(r.w, id)

\* Enumerable.where: the step closure
whereNext(w, id) ==
  LET m == eMoveNext(w, id) IN
  IF m.ret = "throw" THEN [w |-> m.w, val |-> THROWN]
  ELSE IF m.ret = "false" THEN [w |-> m.w, val |-> DONE]
  ELSE LET c == eCurrent(m.w, id)
           w1 == [m.w EXCEPT !.h[id].pulled = Append(@, c)]
       IN whereTest(w1, id, c, invoke(w1, id, "predicate", c))

\* selectNext evaluating the selector a second time for the element it returns
selectNextTwice(w, id) ==
  LET m == eMoveNext(w, id) IN
  IF m.ret = "throw" THEN [w |-> m.w, val |-> THROWN]
  ELSE IF m.ret = "false" THEN [w |-> m.w, val |-> DONE]
  ELSE LET c == eCurrent(m.w, id)
           w1 == [m.w EXCEPT !.h[id].pulled = Append(@, c)]
           r == invoke(w1, id, "selector", c)
       IN IF r.res = THROWN THEN [w |-> r.w, val |-> THROWN]
          ELSE LET r2 == invoke(r.w, id, "selector", c) IN [w |-> r2.w, val |-> r2.res]

\* Enumerable.select: the step closure
selectNext(w, id) ==
  LET m == eMoveNext(w, id) IN
  IF m.ret = "throw" THEN [w |-> m.w, val |-> THROWN]
  ELSE IF m.ret = "false" THEN [w |-> m.w, val |-> DONE]
  ELSE LET c == eCurrent(m.w, id)
           w1 == [m.w EXCEPT !.h[id].pulled = Append(@, c)]
           r == invoke(w1, id, "selector", c)
       IN [w |-> r.w, val |-> r.res]

\* ------------------------------------------------------- take, takeWhile
\* what a step that ends the sequence, or ends by throw, returns
Done(w) == [w |-> w, val |-> DONE]
Throw(w) == [w |-> w, val |-> THROWN]

\* the element e.current, noted as pulled by machine id
pull(w, id) == [w EXCEPT !.h[id].pulled = Append(@, eCurrent(w, id))]

\* Enumerable.take: the body of while (e.moveNext()), m being what
\* e.moveNext() did: if (i++ === count) return DONE; return e.current
takeCount(m, id) ==
  IF m.ret = "throw" THEN Throw(m.w)
  ELSE IF m.ret = "false" THEN Done(m.w)
  ELSE IF m.w.h[id].i = m.w.h[id].count
         THEN Done([pull(m.w, id) EXCEPT !.h[id].i = @ + 1])
         ELSE [w |-> [pull(m.w, id) EXCEPT !.h[id].i = @ + 1],
               val |-> eCurrent(m.w, id)]

\* Enumerable.take: the step closure
takeNext(w, id) == takeCount(eMoveNext(w, id), id)

\* takeWhileTest going on to the next element when the predicate is false
takeWhileTestSkips(w, id, c, r) ==
  IF r.res = THROWN THEN Throw(r.w)
  ELSE IF r.res = 1 THEN [w |-> [r.w EXCEPT !.h[id].idx = @ + 1], val |-> c]
  ELSE whereNext(r.w, id)

\* Enumerable.takeWhile: if (!predicate(e.current, idx)) return DONE;
\* idx++; return e.current
takeWhileTest(w, id, c, r) ==
  IF r.res = THROWN THEN Throw(r.w)
  ELSE IF r.res = 1 THEN [w |-> [r.w EXCEPT !.h[id].idx = @ + 1], val |-> c]
  ELSE Done(r.w)

\* Enumerable.takeWhile: the body of while (e.moveNext())
takeWhilePulled(m, id) ==
  IF m.ret = "throw" THEN Throw(m.w)
  ELSE IF m.ret = "false" THEN Done(m.w)
  ELSE takeWhileTest(pull(m.w, id), id, eCurrent(m.w, id),
                     invoke(pull(m.w, id), id, "predicate", eCurrent(m.w, id)))

\* Enumerable.takeWhile: the step closure
takeWhileNext(w, id) == takeWhilePulled(eMoveNext(w, id), id)

\* --------------------------------------------------------------- takeLast
RECURSIVE countLoop(_, _, _), takeLastNext(_, _)

\* Enumerable.count: while (enumerator.moveNext()) count++
countPlus(m, src, count) ==
  IF m.ret = "throw" THEN [w |-> m.w, ret |-> "throw", count |-> count]
  ELSE IF m.ret = "false" THEN [w |-> m.w, ret |-> "ok", count |-> count]
  ELSE countLoop(m.w, src, count + 1)
countLoop(w, src, count) == countPlus(moveNext(w, src), src, count)

\* source.count(): the length of an array; an operator result is asked for
\* its cursor, which is counted to its end
count(w, src) ==
  IF src = 0 THEN [w |-> w, ret |-> "ok", count |-> Len(arr)]
  ELSE countLoop(getEnumerator(w, src).w, src, 0)

\* Enumerable.takeLast: the body of while (e.moveNext())
takeLastPulled(m, id) ==
  IF m.ret = "throw" THEN Throw(m.w)
  ELSE IF m.ret = "false" THEN Done(m.w)
  ELSE IF m.w.h[id].idx = m.w.h[id].indexToReturn
         THEN [w |-> pull(m.w, id), val |-> eCurrent(m.w, id)]
         ELSE takeLastNext([pull(m.w, id) EXCEPT !.h[id].idx = @ + 1], id)

\* Enumerable.takeLast: the step closure
takeLastNext(w, id) == takeLastPulled(eMoveNext(w, id), id)

\* Enumerable.takeLast, setup: const length = source.count();
\* const indexToReturn = length - count; c is what source.count() did
takeLastSetup(c, id) ==
  IF c.ret = "throw" THEN c.w
  ELSE [c.w EXCEPT !.h[id].indexToReturn = c.count - c.w.h[id].count]

\* ---------------------------------------------------------- second cursor
\* x.getEnumerator() on an array x handed out by a callback or by a lookup:
\* new IndexableIterator(x)
itemsEnumerator(items) == [kind |-> "items", idx |-> -1, id |-> 0, items |-> items]

\* Enumerable.empty().getEnumerator(): a machine whose step returns DONE
emptyEnumerator == [kind |-> "empty", idx |-> -1, id |-> 0, items |-> <<>>]

\* second.getEnumerator(), kept as the second cursor
secondEnumerator(g) ==
  [w |-> g.w, e |-> [kind |-> g.e.kind, idx |-> g.e.idx, id |-> g.e.id, items |-> <<>>]]

\* the array an IndexableIterator held as second cursor runs over
itemsOf(e) == IF e.kind = "idx" THEN arr ELSE e.items

\* moveNext() on the second cursor held by the closure of machine id
e2MoveNext(w, id) ==
  LET e == w.h[id].e2 IN
  IF e.kind = "sm" THEN moveNext(w, e.id)
  ELSE IF e.kind = "empty" THEN [w |-> w, ret |-> "false"]
  ELSE [w |-> [(IF e.kind = "idx" THEN Log(w, "moveNext", 0) ELSE w)
                 EXCEPT !.h[id].e2.idx = e.idx + 1],
        ret |-> IF e.idx + 1 >= Len(itemsOf(e)) THEN "false" ELSE "true"]

\* current of the second cursor held by the closure of machine id
e2Current(w, id) ==
  LET e == w.h[id].e2 IN
  IF e.kind = "sm" THEN w.h[e.id].current
  ELSE IF e.idx + 1 \in DOMAIN itemsOf(e) THEN itemsOf(e)[e.idx + 1]
  ELSE Undefined

\* the element e2.current, noted as pulled from the second cursor
pull2(w, id) == [w EXCEPT !.h[id].pulled2 = Append(@, e2Current(w, id))]

\* ------------------------------------------------- chain, append, prepend
\* Enumerable.chain: if (e2.moveNext()) return e2.current; return DONE
chainSecond(m, id) ==
  IF m.ret = "throw" THEN Throw(m.w)
  ELSE IF m.ret = "false" THEN Done(m.w)
  ELSE [w |-> pull2(m.w, id), val |-> e2Current(m.w, id)]

\* Enumerable.chain: if (e1.moveNext()) return e1.current; then the second
chainFirst(m, id) ==
  IF m.ret = "throw" THEN Throw(m.w)
  ELSE IF m.ret = "true" THEN [w |-> pull(m.w, id), val |-> eCurrent(m.w, id)]
  ELSE chainSecond(e2MoveNext(m.w, id), id)

\* Enumerable.chain: the step closure
chainNext(w, id) == chainFirst(eMoveNext(w, id), id)

\* appendElement returning the element a second time
appendElementTwice(w, id) ==
  IF w.h[id].i < 2
    THEN [w |-> [w EXCEPT !.h[id].hasReturned = TRUE, !.h[id].i = @ + 1],
          val |-> w.h[id].element]
    ELSE Done(w)

\* Enumerable.append: if (hasReturned === false) { hasReturned = true;
\* return element; } return DONE
appendElement(w, id) ==
  IF w.h[id].hasReturned = FALSE
    THEN [w |-> [w EXCEPT !.h[id].hasReturned = TRUE], val |-> w.h[id].element]
    ELSE Done(w)

\* Enumerable.append: if (e.moveNext()) return e.current; then the element
appendPulled(m, id) ==
  IF m.ret = "throw" THEN Throw(m.w)
  ELSE IF m.ret = "true" THEN [w |-> pull(m.w, id), val |-> eCurrent(m.w, id)]
  ELSE appendElement(m.w, id)

\* Enumerable.append: the step closure
appendNext(w, id) == appendPulled(eMoveNext(w, id), id)

\* Enumerable.prepend: if (e.moveNext()) return e.current; return DONE
prependPulled(m, id) ==
  IF m.ret = "throw" THEN Throw(m.w)
  ELSE IF m.ret = "true" THEN [w |-> pull(m.w, id), val |-> eCurrent(m.w, id)]
  ELSE Done(m.w)

\* Enumerable.prepend: the step closure
prependNext(w, id) ==
  IF w.h[id].isFirst
    THEN [w |-> [w EXCEPT !.h[id].isFirst = FALSE], val |-> w.h[id].element]
    ELSE prependPulled(eMoveNext(w, id), id)

\* ------------------------------------------------------------- selectMany
\* Enumerable.selectMany: if (collectionEnumerator.moveNext()) return
\* keySelector(collectionEnumerator.current); return DONE
selectManyFirst(m, id) ==
  IF m.ret = "true"
    THEN [w |-> pull2(m.w, id), val |-> keySelector(e2Current(m.w, id))]
    ELSE Done(m.w)

\* Enumerable.selectMany: if (!e.moveNext()) return DONE; collectionEnumerator
\* = collectionSelector(e.current).getEnumerator()
selectManyOuter(m, id) ==
  IF m.ret = "throw" THEN Throw(m.w)
  ELSE IF m.ret = "false" THEN Done(m.w)
  ELSE selectManyFirst(
         e2MoveNext([pull(m.w, id) EXCEPT
                       !.h[id].calls = Append(@, eCurrent(m.w, id)),
                       !.h[id].e2 = itemsEnumerator(collectionSelector(eCurrent(m.w, id)))],
                    id),
         id)

\* Enumerable.selectMany: the collection at hand has another element, or the
\* next outer element is pulled
selectManyInner(m, id) ==
  IF m.ret = "true"
    THEN [w |-> pull2(m.w, id), val |-> keySelector(e2Current(m.w, id))]
    ELSE selectManyOuter(eMoveNext(m.w, id), id)

\* Enumerable.selectMany: the step closure
selectManyNext(w, id) ==
  IF w.h[id].e2.kind = "none"
    THEN selectManyOuter(eMoveNext(w, id), id)
    ELSE selectManyInner(e2MoveNext(w, id), id)

\* ----------------------------------------------------------------- Lookup
\* Lookup.getGrouping(key): the index of the first grouping with that key,
\* 0 for null
getGrouping(groupings, key) ==
  IF \E g \in DOMAIN groupings : groupings[g].key = key
    THEN CHOOSE g \in DOMAIN groupings :
           /\ groupings[g].key = key
           /\ \A f \in 1..(g - 1) : groupings[f].key # key
    ELSE 0

\* getGrouping(key, true) pushing a new grouping whether one is found or not
getGroupingPushes(groupings, key) ==
  Append(groupings, [key |-> key, elements |-> <<>>])

\* Lookup.getGrouping(key, true): a grouping not found is made and pushed
getGroupingCreate(groupings, key) ==
  IF getGrouping(groupings, key) # 0 THEN groupings
  ELSE Append(groupings, [key |-> key, elements |-> <<>>])

\* add putting the element in front of the grouping's elements
addInFront(groupings, g, element) ==
  [groupings EXCEPT ![g].elements = <<element>> \o @]

\* Grouping.add(element): this.elements.push(element)
add(groupings, g, element) ==
  [groupings EXCEPT ![g].elements = Append(@, element)]

\* Lookup.create: the body of the loop for element c
lookupPut(groupings, c) ==
  LET gs == getGroupingCreate(groupings, innerKeySelector(c))
  IN add(gs, getGrouping(gs, innerKeySelector(c)), c)

RECURSIVE lookupLoop(_, _, _)
\* Lookup.create: while (e.moveNext()) over the cursor e of the source
lookupMoved(m, e, groupings) ==
  IF m.ret = "throw" THEN [w |-> m.w, ret |-> "throw", groupings |-> groupings]
  ELSE IF m.ret = "false" THEN [w |-> m.w, ret |-> "ok", groupings |-> groupings]
  ELSE IF e.kind = "sm"
         THEN lookupLoop(m.w, e, lookupPut(groupings, m.w.h[e.id].current))
         ELSE lookupLoop(m.w, [e EXCEPT !.idx = @ + 1],
                         lookupPut(groupings, indexCurrent(e.idx + 1)))
lookupLoop(w, e, groupings) ==
  lookupMoved(IF e.kind = "sm" THEN moveNext(w, e.id)
              ELSE [w |-> Log(w, "moveNext", 0),
                    ret |-> IF e.idx + 1 >= Len(arr) THEN "false" ELSE "true"],
              e, groupings)

\* Lookup.create(source, keySelector)
LookupCreate(w, source) ==
  LET g == getEnumerator(w, source) IN lookupLoop(g.w, g.e, <<>>)

\* Lookup.getGroupElements(key).getEnumerator(): the cursor of the elements
\* of the grouping, of Enumerable.empty() when there is none
getGroupElements(groupings, key) ==
  IF getGrouping(groupings, key) = 0 THEN emptyEnumerator
  ELSE itemsEnumerator(groupings[getGrouping(groupings, key)].elements)

\* ------------------------------------------------------ innerJoin, groupJoin
\* Enumerable.innerJoin: if (eGrouping.moveNext()) return
\* resultSelector(outerElement, eGrouping.current); return DONE
innerJoinFirst(m, id) ==
  IF m.ret = "true"
    THEN [w |-> pull2(m.w, id),
          val |-> resultSelector(m.w.h[id].outerElement, e2Current(m.w, id))]
    ELSE Done(m.w)

\* Enumerable.innerJoin: if (!eOuter.moveNext()) return DONE; outerElement =
\* eOuter.current; eGrouping = lookup.getGroupElements(outerKey).getEnumerator()
innerJoinOuter(m, id) ==
  IF m.ret = "throw" THEN Throw(m.w)
  ELSE IF m.ret = "false" THEN Done(m.w)
  ELSE innerJoinFirst(
         e2MoveNext([pull(m.w, id) EXCEPT
                       !.h[id].outerElement = eCurrent(m.w, id),
                       !.h[id].e2 = getGroupElements(m.w.h[id].lookup,
                                       outerKeySelector(eCurrent(m.w, id)))],
                    id),
         id)

\* Enumerable.innerJoin: the grouping at hand has another element, or the
\* next outer element is pulled
innerJoinInner(m, id) ==
  IF m.ret = "true"
    THEN [w |-> pull2(m.w, id),
          val |-> resultSelector(m.w.h[id].outerElement, e2Current(m.w, id))]
    ELSE innerJoinOuter(eMoveNext(m.w, id), id)

\* Enumerable.innerJoin: the step closure
innerJoinNext(w, id) ==
  IF w.h[id].e2.kind = "none"
    THEN innerJoinOuter(eMoveNext(w, id), id)
    ELSE innerJoinInner(e2MoveNext(w, id), id)

\* the elements of getGroupElements(key): those of the grouping, none for
\* Enumerable.empty()
groupElements(groupings, key) ==
  IF getGrouping(groupings, key) = 0 THEN <<>>
  ELSE groupings[getGrouping(groupings, key)].elements

\* Enumerable.groupJoin: the body of while (eOuter.moveNext())
groupJoinPulled(m, id) ==
  IF m.ret = "throw" THEN Throw(m.w)
  ELSE IF m.ret = "false" THEN Done(m.w)
  ELSE [w |-> pull(m.w, id),
        val |-> groupResultSelector(eCurrent(m.w, id),
                  groupElements(m.w.h[id].lookup, outerKeySelector(eCurrent(m.w, id))))]

\* Enumerable.groupJoin: the step closure
groupJoinNext(w, id) == groupJoinPulled(eMoveNext(w, id), id)

\* the setup of innerJoin and groupJoin: l is what Lookup.create did
joinLookup(made, id) ==
  IF made.ret = "throw" THEN made.w
  ELSE [made.w EXCEPT !.h[id].lookup = made.groupings]

\* ------------------------------------------------------ zip, union, except
\* resultSelector of zip: (a, b) => 10 * a + b
zipSelector(a, b) == 10 * a + b

\* Enumerable.zip: e1.moveNext() && e2.moveNext() held: return
\* resultSelector(e1.current, e2.current); m is what e2.moveNext() did
zipSecond(m, id) ==
  IF m.ret = "throw" THEN Throw(m.w)
  ELSE IF m.ret = "false" THEN Done(m.w)
  ELSE [w |-> pull2(pull(m.w, id), id),
        val |-> zipSelector(eCurrent(m.w, id), e2Current(m.w, id))]

\* Enumerable.zip: e2.moveNext() is only called when e1.moveNext() is true
zipFirst(m, id) ==
  IF m.ret = "throw" THEN Throw(m.w)
  ELSE IF m.ret = "false" THEN Done(m.w)
  ELSE zipSecond(e2MoveNext(m.w, id), id)

\* Enumerable.zip: the step closure
zipNext(w, id) == zipFirst(eMoveNext(w, id), id)

\* Enumerable._existsInArray with the default comparer, Object.is
existsInArray(array, value) == \E i \in DOMAIN array : array[i] = value

RECURSIVE unionNext(_, _), unionSecondNext(_, _)

\* Enumerable.union: previousElements.push(v); return v
unionKeep(w, id, v) ==
  [w |-> [w EXCEPT !.h[id].previousElements = Append(@, v)], val |-> v]

\* Enumerable.union: the body of while (e2.moveNext())
unionSecondPulled(m, id) ==
  IF m.ret = "throw" THEN Throw(m.w)
  ELSE IF m.ret = "false" THEN Done(m.w)
  ELSE IF existsInArray(m.w.h[id].previousElements, e2Current(m.w, id))
         THEN unionSecondNext(pull2(m.w, id), id)
         ELSE unionKeep(pull2(m.w, id), id, e2Current(m.w, id))

\* Enumerable.union: while (e2.moveNext())
unionSecondNext(w, id) == unionSecondPulled(e2MoveNext(w, id), id)

\* Enumerable.union: the body of while (e1.moveNext()), and the second loop
\* when the first cursor has ended
unionFirstPulled(m, id) ==
  IF m.ret = "throw" THEN Throw(m.w)
  ELSE IF m.ret = "false" THEN unionSecondNext(m.w, id)
  ELSE IF existsInArray(m.w.h[id].previousElements, eCurrent(m.w, id))
         THEN unionNext(pull(m.w, id), id)
         ELSE unionKeep(pull(m.w, id), id, eCurrent(m.w, id))

\* Enumerable.union: the step closure
unionNext(w, id) == unionFirstPulled(eMoveNext(w, id), id)

RECURSIVE indexToArray(_, _, _), exceptNext(_, _), toArray(_, _)

\* Enumerable.toArray over an array: while (e.moveNext()) array.push(e.current)
\* on a new IndexableIterator, idx being its _idx
indexToArray(w, idx, array) ==
  IF idx + 1 >= Len(arr)
    THEN [w |-> Log(w, "moveNext", 0), ret |-> "ok", array |-> array]
    ELSE indexToArray(Log(w, "moveNext", 0), idx + 1, Append(array, indexCurrent(idx + 1)))

\* source.toArray(), on an array or on an operator result
toArrayOf(w, source) ==
  IF source = 0 THEN indexToArray(getEnumerator(w, 0).w, -1, <<>>)
  ELSE toArray(w, source)

\* Enumerable.except: if (!_existsInArray(exceptValues, v, equalityComparer))
\* return v
exceptTest(w, id, v) ==
  IF ~existsInArray(w.h[id].exceptValues, v) THEN [w |-> w, val |-> v]
  ELSE exceptNext(w, id)

\* Enumerable.except: the body of while (e.moveNext())
exceptPulled(m, id) ==
  IF m.ret = "throw" THEN Throw(m.w)
  ELSE IF m.ret = "false" THEN Done(m.w)
  ELSE exceptTest(pull(m.w, id), id, eCurrent(m.w, id))

\* Enumerable.except: the step closure
exceptNext(w, id) == exceptPulled(eMoveNext(w, id), id)

\* Enumerable.except, setup: const exceptValues = second.toArray(); t is what
\* second.toArray() did
exceptSetup(t, id) ==
  IF t.ret = "throw" THEN t.w
  ELSE [t.w EXCEPT !.h[id].exceptValues = t.array]

\* ---------------------------------------------------- chunk, chunkOrDefault
\* The array a step returns is held as the number its elements spell: the
\* elements are digits, the empty array is 0.
RECURSIVE chunkNext(_, _), chunkOrDefaultNext(_, _)

\* const v = buffer; buffer = []; return v
chunkReturn(w, id) ==
  [w |-> [w EXCEPT !.h[id].buffer = <<>>], val |-> Digits(w.h[id].buffer)]

\* chunkRest ending the sequence whatever the buffer holds
chunkRestDropped(w, id) == Done(w)

\* Enumerable.chunk: if (buffer.length > 0) return r(); return DONE
chunkRest(w, id) ==
  IF Len(w.h[id].buffer) > 0 THEN chunkReturn(w, id) ELSE Done(w)

\* Enumerable.chunk: if (buffer.length === size) return r(), and the loop
\* goes on otherwise
chunkPushed(w, id) ==
  IF Len(w.h[id].buffer) = w.h[id].size THEN chunkReturn(w, id) ELSE chunkNext(w, id)

\* Enumerable.chunk: the body of while (e.moveNext()), and what follows the
\* loop
chunkPulled(m, id) ==
  IF m.ret = "throw" THEN Throw(m.w)
  ELSE IF m.ret = "false" THEN chunkRest(m.w, id)
  ELSE chunkPushed([pull(m.w, id) EXCEPT !.h[id].buffer = Append(@, eCurrent(m.w, id))], id)

\* Enumerable.chunk: the step closure
chunkNext(w, id) == chunkPulled(eMoveNext(w, id), id)

\* chunkOrDefaultRest returning the short buffer itself
chunkOrDefaultRestKept(w, id) == chunkRest(w, id)

\* Enumerable.chunkOrDefault: if (buffer.length > 0) { buffer = []; return
\* defaultValue ?? null; } return DONE
chunkOrDefaultRest(w, id) ==
  IF Len(w.h[id].buffer) > 0
    THEN [w |-> [w EXCEPT !.h[id].buffer = <<>>],
          val |-> IF w.h[id].defaultValue = Undefined THEN Null ELSE w.h[id].defaultValue]
    ELSE Done(w)

\* Enumerable.chunkOrDefault: if (buffer.length === size) { const v = buffer;
\* buffer = []; return v; }, and the loop goes on otherwise
chunkOrDefaultPushed(w, id) ==
  IF Len(w.h[id].buffer) = w.h[id].size THEN chunkReturn(w, id)
  ELSE chunkOrDefaultNext(w, id)

\* Enumerable.chunkOrDefault: the body of while (e.moveNext()), and what
\* follows the loop
chunkOrDefaultPulled(m, id) ==
  IF m.ret = "throw" THEN Throw(m.w)
  ELSE IF m.ret = "false" THEN chunkOrDefaultRest(m.w, id)
  ELSE chunkOrDefaultPushed(
         [pull(m.w, id) EXCEPT !.h[id].buffer = Append(@, eCurrent(m.w, id))], id)

\* Enumerable.chunkOrDefault: the step closure
chunkOrDefaultNext(w, id) == chunkOrDefaultPulled(eMoveNext(w, id), id)

\* EnumeratorStateMachineImpl.setup(): this.next = this._setup(); the setup
\* function of every operator asks its source for a cursor and starts with
\* fresh locals.
setup(w, id) ==
  LET g == getEnumerator(Log(w, "setup", id), w.h[id].src) IN
  [g.w EXCEPT !.h[id].e = g.e, !.h[id].pulled = <<>>, !.h[id].calls = <<>>, !.h[id].out = <<>>]

\* the locals every setup function starts its closure with
freshLocals(w, id) ==
  [w EXCEPT !.h[id].e2 = NoE2, !.h[id].pulled2 = <<>>, !.h[id].i = 0, !.h[id].idx = 0,
            !.h[id].indexToReturn = 0, !.h[id].hasReturned = FALSE,
            !.h[id].isFirst = TRUE, !.h[id].outerElement = Undefined,
            !.h[id].lookup = <<>>, !.h[id].previousElements = <<>>,
            !.h[id].exceptValues = <<>>, !.h[id].buffer = <<>>,
            !.h[id].length = 0, !.h[id].values = <<>>]

\* the cursor e of the source, kept by the closure: g is what
\* source.getEnumerator() did
keepEnumerator(g, id) ==
  [g.w EXCEPT !.h[id].e = g.e, !.h[id].pulled = <<>>, !.h[id].calls = <<>>, !.h[id].out = <<>>]

\* the second cursor, kept by the closure
keepSecond(g, id) == [g.w EXCEPT !.h[id].e2 = g.e]

\* Enumerable.groupJoin, setup: Lookup.create(inner, ...) and then
\* outer.getEnumerator()
groupJoinSetup(w, id) ==
  IF w.err # NoError THEN w
  ELSE keepEnumerator(getEnumerator(w, w.h[id].src), id)

\* Enumerable.skipLast, setup: const length = source.count(); c is what
\* source.count() did
skipLastSetup(c, id) ==
  IF c.ret = "throw" THEN c.w ELSE [c.w EXCEPT !.h[id].length = c.count]

\* the setup function of the operator of machine id
setupOf(w, id) ==
  LET op == w.h[id].op IN
  IF op \in {"where", "select"} THEN setup(w, id)
  ELSE IF op = "groupJoin"
    THEN groupJoinSetup(
           joinLookup(LookupCreate(freshLocals(Log(w, "setup", id), id), w.h[id].second), id),
           id)
  ELSE IF op = "innerJoin"
    THEN joinLookup(LookupCreate(freshLocals(setup(w, id), id), w.h[id].second), id)
  ELSE IF op \in {"chain", "zip", "union"}
    THEN keepSecond(secondEnumerator(getEnumerator(freshLocals(setup(w, id), id),
                                                   w.h[id].second)), id)
  ELSE IF op = "takeLast"
    THEN takeLastSetup(count(freshLocals(setup(w, id), id), w.h[id].src), id)
  ELSE IF op = "except"
    THEN exceptSetup(toArrayOf(freshLocals(setup(w, id), id), w.h[id].second), id)
  ELSE IF op = "skipLast"
    THEN skipLastSetup(count(freshLocals(setup(w, id), id), w.h[id].src), id)
  ELSE IF op = "empty" THEN Log(w, "setup", id)
  ELSE freshLocals(setup(w, id), id)

\* ------------------------------------------- reverse, skip, skipLast, empty
RECURSIVE reverseNext(_, _), skipNext(_, _)

\* reversePop taking the element off the end of the source array
reversePopsSource(w, id) ==
  IF Len(w.arr) > 0
    THEN [w |-> [w EXCEPT !.arr = SubSeq(@, 1, Len(@) - 1)], val |-> w.arr[Len(w.arr)]]
    ELSE Done(w)

\* Enumerable.reverse: if (values.length > 0) return values.pop(); return DONE
reversePop(w, id) ==
  IF Len(w.h[id].values) > 0
    THEN [w |-> [w EXCEPT !.h[id].values = SubSeq(@, 1, Len(@) - 1)],
          val |-> w.h[id].values[Len(w.h[id].values)]]
    ELSE Done(w)

\* Enumerable.reverse: the body of while (e.moveNext()): values.push(e.current)
reversePulled(m, id) ==
  IF m.ret = "throw" THEN Throw(m.w)
  ELSE IF m.ret = "false" THEN reversePop(m.w, id)
  ELSE reverseNext([m.w EXCEPT !.h[id].values = Append(@, eCurrent(m.w, id))], id)

\* Enumerable.reverse: the step closure
reverseNext(w, id) == reversePulled(eMoveNext(w, id), id)

\* Enumerable.skip: the body of while (e.moveNext()): if (i++ >= count)
\* return e.current
skipPulled(m, id) ==
  IF m.ret = "throw" THEN Throw(m.w)
  ELSE IF m.ret = "false" THEN Done(m.w)
  ELSE IF m.w.h[id].i >= m.w.h[id].count
         THEN [w |-> [pull(m.w, id) EXCEPT !.h[id].i = @ + 1], val |-> eCurrent(m.w, id)]
         ELSE skipNext([pull(m.w, id) EXCEPT !.h[id].i = @ + 1], id)

\* Enumerable.skip: the step closure
skipNext(w, id) == skipPulled(eMoveNext(w, id), id)

\* Enumerable.skipLast: if (e.moveNext()) { idx++; return e.current; }
\* return DONE
skipLastPulled(m, id) ==
  IF m.ret = "throw" THEN Throw(m.w)
  ELSE IF m.ret = "false" THEN Done(m.w)
  ELSE [w |-> [pull(m.w, id) EXCEPT !.h[id].idx = @ + 1], val |-> eCurrent(m.w, id)]

\* Enumerable.skipLast: the step closure: if (length - idx <= count) return
\* DONE, which is also all the closure made when length - count <= 0 does
skipLastNext(w, id) ==
  IF w.h[id].length - w.h[id].idx <= w.h[id].count THEN Done(w)
  ELSE skipLastPulled(eMoveNext(w, id), id)

\* the step closure of the operator of machine id, for reverse, skip,
\* skipLast and Enumerable.empty, whose step is () => DONE
otherOf(w, id) ==
  IF w.h[id].op = "reverse" THEN reverseNext(w, id)
  ELSE IF w.h[id].op = "skip" THEN skipNext(w, id)
  ELSE IF w.h[id].op = "skipLast" THEN skipLastNext(w, id)
  ELSE Done(w)

\* the step closure of the operator of machine id, for the set operators and
\* the chunking ones
laterOf(w, id) ==
  LET op == w.h[id].op IN
  IF op = "zip" THEN zipNext(w, id)
  ELSE IF op = "union" THEN unionNext(w, id)
  ELSE IF op = "except" THEN exceptNext(w, id)
  ELSE IF op = "chunk" THEN chunkNext(w, id)
  ELSE IF op = "chunkOrDefault" THEN chunkOrDefaultNext(w, id)
  ELSE otherOf(w, id)

\* the step closure of the operator of machine id
nextOf(w, id) ==
  LET op == w.h[id].op IN
  IF op = "take" THEN takeNext(w, id)
  ELSE IF op = "takeWhile" THEN takeWhileNext(w, id)
  ELSE IF op = "takeLast" THEN takeLastNext(w, id)
  ELSE IF op = "chain" THEN chainNext(w, id)
  ELSE IF op = "append" THEN appendNext(w, id)
  ELSE IF op = "prepend" THEN prependNext(w, id)
  ELSE IF op = "selectMany" THEN selectManyNext(w, id)
  ELSE IF op = "innerJoin" THEN innerJoinNext(w, id)
  ELSE IF op = "groupJoin" THEN groupJoinNext(w, id)
  ELSE laterOf(w, id)

\* this.next(): the trace gets what the step closure returned
nextReturned(n, id) == [n EXCEPT !.w.tr = Append(@, Ev("nextReturn", id, 0, n.val))]

\* this.next(): the step closure of the operator of machine id
nextLogged(w1, id) ==
  IF w1.h[id].op = "where" THEN whereNext(w1, id)
  ELSE IF w1.h[id].op = "select" THEN selectNext(w1, id)
  ELSE nextOf(w1, id)

\* this.next(): the step closure of the operator; the trace gets the call
\* and what it returned.
next(w, id) == nextReturned(nextLogged(Log(w, "next", id), id), id)

\* isStopped without the early return: a stopped machine goes on to next()
isStoppedNever(s) == FALSE

\* moveNext(): the state is neither Setup nor HasNextElement
isStopped(s) == s # Setup /\ s # HasNextElement

\* onDone clearing current when the sequence ends
onDoneClearsCurrent(w, id) ==
  [w |-> [w EXCEPT !.h[id].current = Undefined], ret |-> "false"]

\* moveNext(): next() returned DONE
onDone(w, id) == [w |-> w, ret |-> "false"]

\* moveNext(): next() returned a value
onValue(w, id, v) ==
  [w |-> [w EXCEPT !.h[id].state = HasNextElement, !.h[id].current = v,
                   !.h[id].out = Append(@, v)],
   ret |-> "true"]

\* onThrow catching the error and reporting the end of the sequence
onThrowSwallowed(w, id) == [w |-> w, ret |-> "false"]

\* moveNext(): next() threw; nothing catches it
onThrow(w, id) == [w |-> w, ret |-> "throw"]

\* moveNext(): this.setup() threw; the machine keeps the state Setup and the
\* closure it had in w0
setupThrew(w, w0, id) == [w |-> [w EXCEPT !.h[id] = w0.h[id]], ret |-> "throw"]

\* The trace entry of a moveNext() call that ends: res is 1 for true, 0 for
\* false, THROWN when the call ends by throw.
Return(r, id) ==
  [r EXCEPT !.w.tr = Append(@, Ev("return", id, 0,
      IF r.ret = "true" THEN 1 ELSE IF r.ret = "false" THEN 0 ELSE THROWN))]

\* moveNext(): what follows this.next(), n being what it did
moveNextStepped(n, id) ==
  IF n.val = THROWN THEN Return(onThrow(n.w, id), id)
  ELSE IF n.val = DONE THEN Return(onDone(n.w, id), id)
  ELSE Return(onValue(n.w, id, n.val), id)

\* moveNextSetUp leaving the state as it was while this.next() runs
moveNextSetUpKeepsState(w1, w0, id) ==
  IF w1.err # NoError THEN Return(setupThrew(w1, w0, id), id)
  ELSE moveNextStepped(next(w1, id), id)

\* moveNext(): what follows the setup function, w1 being the world it left:
\* the state is Stop while this.next() runs
moveNextSetUp(w1, w0, id) ==
  IF w1.err # NoError THEN Return(setupThrew(w1, w0, id), id)
  ELSE moveNextStepped(next([w1 EXCEPT !.h[id].state = Stop], id), id)

\* moveNextFrom invoking the setup function in state HasNextElement too
moveNextFromSetsUp(w0, s, id) ==
  IF isStopped(s) THEN Return([w |-> w0, ret |-> "false"], id)
  ELSE moveNextSetUp(setupOf(w0, id), w0, id)

\* moveNext() of a machine in state s, the call logged in w0
moveNextFrom(w0, s, id) ==
  IF isStopped(s) THEN Return([w |-> w0, ret |-> "false"], id)
  ELSE moveNextSetUp(IF s = Setup THEN setupOf(w0, id) ELSE w0, w0, id)

\* EnumeratorStateMachine.moveNext()
moveNext(w, id) == moveNextFrom(Log(w, "moveNext", id), w.h[id].state, id)

\* reset leaving the state alone
resetKeepsState(w, id) == w

\* EnumeratorStateMachine.reset()
reset(w, id) == [w EXCEPT !.h[id].state = Setup]

RECURSIVE toArrayLoop(_, _, _)
\* Enumerable.toArray: the body of the loop, m being what e.moveNext() did
toArrayPush(m, id, array) ==
  IF m.ret = "throw" THEN [w |-> m.w, ret |-> "throw", array |-> array]
  ELSE IF m.ret = "false" THEN [w |-> m.w, ret |-> "ok", array |-> array]
  ELSE toArrayLoop(m.w, id, Append(array, m.w.h[id].current))

\* Enumerable.toArray: while (e.moveNext()) array.push(e.current)
toArrayLoop(w, id, array) == toArrayPush(moveNext(w, id), id, array)

\* Enumerable.toArray: the loop over the cursor g that getEnumerator() gave
toArrayOver(g) == toArrayLoop(g.w, g.e.id, <<>>)

\* Enumerable.toArray(source) on an operator result
toArray(w, q) == toArrayOver(getEnumerator(w, q))

\* ----------------------------------------------------- terminal operators
\* What a terminal operator does: it returns value, or ends by throw with
\* the error in w.err.
Returns(w, value) == [w |-> w, ret |-> "ok", value |-> value]
Thrown(w) == [w |-> w, ret |-> "throw", value |-> Undefined]
Raises(w, kind) == Thrown([w EXCEPT !.err = ThrowHelper(kind)])

\* a callback called by a terminal operator: logged, its throw recorded as
\* the error in flight
call(w, fn, v) ==
  [w |-> [w EXCEPT !.tr = Append(@, Ev(fn, 0, v, predicate(v))),
                   !.err = IF predicate(v) = THROWN THEN ErrorOf(fn, v) ELSE @],
   res |-> predicate(v)]

\* what moveNext() on a state machine did, with the cursor e it was called on
withCursor(m, e) == [w |-> m.w, ret |-> m.ret, e |-> e]

\* e.moveNext() on the cursor e a terminal operator holds: the cursor too
\* is returned, as it is after the call
curMoveNext(w, e) ==
  IF e.kind = "sm" THEN withCursor(moveNext(w, e.id), e)
  ELSE [w |-> Log(w, "moveNext", 0),
        ret |-> IF e.idx + 1 >= Len(arr) THEN "false" ELSE "true",
        e |-> [e EXCEPT !.idx = @ + 1]]

\* e.current on the cursor e a terminal operator holds
curCurrent(w, e) ==
  IF e.kind = "sm" THEN w.h[e.id].current ELSE indexCurrent(e.idx)

RECURSIVE singleLoop(_, _, _, _)

\* singleCounted returning the last match when more than one matches
singleCountedLast(w, result, n) ==
  IF n = 0 THEN Raises(w, "noMatch") ELSE Returns(w, result)

\* Enumerable.single: switch (count) { case 0: throw noMatch; case 1: return
\* result; } throw moreThanOneMach
singleCounted(w, result, n) ==
  IF n = 0 THEN Raises(w, "noMatch")
  ELSE IF n = 1 THEN Returns(w, result)
  ELSE Raises(w, "moreThanOneMach")

\* Enumerable.single: if (predicate(element)) { result = element; count++; },
\* r being what predicate(element) did
singleTested(r, e, result, n, element) ==
  IF r.res = THROWN THEN Thrown(r.w)
  ELSE IF r.res = 1 THEN singleLoop(r.w, e, element, n + 1)
  ELSE singleLoop(r.w, e, result, n)

\* Enumerable.single: the body of while (e.moveNext())
singleMoved(m, result, n) ==
  IF m.ret = "throw" THEN Thrown(m.w)
  ELSE IF m.ret = "false" THEN singleCounted(m.w, result, n)
  ELSE singleTested(call(m.w, "predicate", curCurrent(m.w, m.e)), m.e, result, n,
                    curCurrent(m.w, m.e))

\* Enumerable.single: while (e.moveNext()) with a predicate
singleLoop(w, e, result, n) == singleMoved(curMoveNext(w, e), result, n)

\* Enumerable.single without predicate: if (!e.moveNext()) return result;
\* throw moreThanOneMach
singleSecond(m, result) ==
  IF m.ret = "throw" THEN Thrown(m.w)
  ELSE IF m.ret = "false" THEN Returns(m.w, result)
  ELSE Raises(m.w, "moreThanOneMach")

\* Enumerable.single without predicate: if (!e.moveNext()) throw empty;
\* result = e.current
singleFirst(m) ==
  IF m.ret = "throw" THEN Thrown(m.w)
  ELSE IF m.ret = "false" THEN Raises(m.w, "empty")
  ELSE singleSecond(curMoveNext(m.w, m.e), curCurrent(m.w, m.e))

\* Enumerable.single, with a predicate: the loop over the cursor g that the
\* second source.getEnumerator() gave
singleOver(g) == singleLoop(g.w, g.e, Undefined, 0)

\* Enumerable.single, without predicate, over the cursor g that
\* source.getEnumerator() gave
singleUnfiltered(g) == singleFirst(curMoveNext(g.w, g.e))

\* Enumerable.single(source, predicate?)
single(w, source, hasPredicate) ==
  IF hasPredicate THEN singleOver(getEnumerator(getEnumerator(w, source).w, source))
  ELSE singleUnfiltered(getEnumerator(w, source))

\* ------------------------------------------------------------ ...OrDefault
\* Enumerable._getOrDefaultValue: the default the caller gave, ?? null
getOrDefaultValue(defaultValue) ==
  IF defaultValue = Undefined THEN Null ELSE defaultValue

RECURSIVE singleOrDefaultLoop(_, _, _, _, _), firstOrDefaultLoop(_, _, _, _),
          lastOrDefaultLoop(_, _, _, _, _, _), elementAtOrDefaultLoop(_, _, _, _)

\* Enumerable.singleOrDefault: switch (count) { case 0: return notFoundValue;
\* case 1: return result; } return notFoundValue
singleOrDefaultCounted(w, result, n, notFoundValue) ==
  IF n = 1 THEN Returns(w, result) ELSE Returns(w, notFoundValue)

\* Enumerable.singleOrDefault: if (predicate(element)) { result = element;
\* count++; }, r being what predicate(element) did
singleOrDefaultTested(r, e, result, n, notFoundValue, element) ==
  IF r.res = THROWN THEN Thrown(r.w)
  ELSE IF r.res = 1 THEN singleOrDefaultLoop(r.w, e, element, n + 1, notFoundValue)
  ELSE singleOrDefaultLoop(r.w, e, result, n, notFoundValue)

\* Enumerable.singleOrDefault: the body of while (e.moveNext())
singleOrDefaultMoved(m, result, n, notFoundValue) ==
  IF m.ret = "throw" THEN Thrown(m.w)
  ELSE IF m.ret = "false" THEN singleOrDefaultCounted(m.w, result, n, notFoundValue)
  ELSE singleOrDefaultTested(call(m.w, "predicate", curCurrent(m.w, m.e)), m.e, result, n,
                             notFoundValue, curCurrent(m.w, m.e))

\* Enumerable.singleOrDefault: while (e.moveNext()) with a predicate
singleOrDefaultLoop(w, e, result, n, notFoundValue) ==
  singleOrDefaultMoved(curMoveNext(w, e), result, n, notFoundValue)

\* Enumerable.singleOrDefault without predicate: if (!e.moveNext()) return
\* result; return notFoundValue
singleOrDefaultSecond(m, result, notFoundValue) ==
  IF m.ret = "throw" THEN Thrown(m.w)
  ELSE IF m.ret = "false" THEN Returns(m.w, result)
  ELSE Returns(m.w, notFoundValue)

\* Enumerable.singleOrDefault without predicate: if (!e.moveNext()) return
\* notFoundValue; result = e.current
singleOrDefaultFirst(m, notFoundValue) ==
  IF m.ret = "throw" THEN Thrown(m.w)
  ELSE IF m.ret = "false" THEN Returns(m.w, notFoundValue)
  ELSE singleOrDefaultSecond(curMoveNext(m.w, m.e), curCurrent(m.w, m.e), notFoundValue)

\* Enumerable.singleOrDefault, with a predicate: the loop over the cursor g
\* that the second source.getEnumerator() gave
singleOrDefaultOver(g, notFoundValue) ==
  singleOrDefaultLoop(g.w, g.e, Undefined, 0, notFoundValue)

\* Enumerable.singleOrDefault, without predicate, over the cursor g
singleOrDefaultUnfiltered(g, notFoundValue) ==
  singleOrDefaultFirst(curMoveNext(g.w, g.e), notFoundValue)

\* Enumerable.singleOrDefault(source, predicate?, defaultValue?)
singleOrDefault(w, source, hasPredicate, defaultValue) ==
  IF hasPredicate
    THEN singleOrDefaultOver(getEnumerator(getEnumerator(w, source).w, source),
                             getOrDefaultValue(defaultValue))
    ELSE singleOrDefaultUnfiltered(getEnumerator(w, source), getOrDefaultValue(defaultValue))

\* Enumerable.firstOrDefault: if (predicate(element)) return element
firstOrDefaultTested(r, e, hasPredicate, notFoundValue, element) ==
  IF r.res = THROWN THEN Thrown(r.w)
  ELSE IF r.res = 1 THEN Returns(r.w, element)
  ELSE firstOrDefaultLoop(r.w, e, hasPredicate, notFoundValue)

\* Enumerable.firstOrDefault: the body of while (e.moveNext()), and return
\* notFoundValue after the loop
firstOrDefaultMoved(m, hasPredicate, notFoundValue) ==
  IF m.ret = "throw" THEN Thrown(m.w)
  ELSE IF m.ret = "false" THEN Returns(m.w, notFoundValue)
  ELSE IF ~hasPredicate THEN Returns(m.w, curCurrent(m.w, m.e))
  ELSE firstOrDefaultTested(call(m.w, "predicate", curCurrent(m.w, m.e)), m.e,
                            hasPredicate, notFoundValue, curCurrent(m.w, m.e))

\* Enumerable.firstOrDefault: while (e.moveNext())
firstOrDefaultLoop(w, e, hasPredicate, notFoundValue) ==
  firstOrDefaultMoved(curMoveNext(w, e), hasPredicate, notFoundValue)

\* Enumerable.firstOrDefault over the cursor g that getEnumerator() gave
firstOrDefaultOver(g, hasPredicate, notFoundValue) ==
  firstOrDefaultLoop(g.w, g.e, hasPredicate, notFoundValue)

\* Enumerable.firstOrDefault(source, predicate?, defaultValue?)
firstOrDefault(w, source, hasPredicate, defaultValue) ==
  firstOrDefaultOver(getEnumerator(w, source), hasPredicate, getOrDefaultValue(defaultValue))

\* Enumerable.lastOrDefault: if (predicate(element)) { result = element;
\* found = true; }
lastOrDefaultTested(r, e, hasPredicate, notFoundValue, result, found, element) ==
  IF r.res = THROWN THEN Thrown(r.w)
  ELSE IF r.res = 1 THEN lastOrDefaultLoop(r.w, e, hasPredicate, notFoundValue, element, TRUE)
  ELSE lastOrDefaultLoop(r.w, e, hasPredicate, notFoundValue, result, found)

\* Enumerable.lastOrDefault: the body of while (e.moveNext()), and if (found)
\* return result; return notFoundValue after the loop
lastOrDefaultMoved(m, hasPredicate, notFoundValue, result, found) ==
  IF m.ret = "throw" THEN Thrown(m.w)
  ELSE IF m.ret = "false" THEN Returns(m.w, IF found THEN result ELSE notFoundValue)
  ELSE IF ~hasPredicate
    THEN lastOrDefaultLoop(m.w, m.e, hasPredicate, notFoundValue, curCurrent(m.w, m.e), TRUE)
  ELSE lastOrDefaultTested(call(m.w, "predicate", curCurrent(m.w, m.e)), m.e,
                           hasPredicate, notFoundValue, result, found, curCurrent(m.w, m.e))

\* Enumerable.lastOrDefault: while (e.moveNext())
lastOrDefaultLoop(w, e, hasPredicate, notFoundValue, result, found) ==
  lastOrDefaultMoved(curMoveNext(w, e), hasPredicate, notFoundValue, result, found)

\* Enumerable.lastOrDefault over the cursor g that getEnumerator() gave
lastOrDefaultOver(g, hasPredicate, notFoundValue) ==
  lastOrDefaultLoop(g.w, g.e, hasPredicate, notFoundValue, Null, FALSE)

\* Enumerable.lastOrDefault(source, predicate?, defaultValue?): an array that
\* is not empty, asked without predicate, gives source[length - 1]
lastOrDefault(w, source, hasPredicate, defaultValue) ==
  IF source = 0 /\ ~hasPredicate /\ Len(arr) > 0 THEN Returns(w, arr[Len(arr)])
  ELSE lastOrDefaultOver(getEnumerator(w, source), hasPredicate,
                         getOrDefaultValue(defaultValue))

\* Enumerable.elementAtOrDefault: the body of while (true)
elementAtOrDefaultMoved(m, i, defaultValue) ==
  IF m.ret = "throw" THEN Thrown(m.w)
  ELSE IF m.ret = "false" THEN Returns(m.w, defaultValue)
  ELSE IF i = 0 THEN Returns(m.w, curCurrent(m.w, m.e))
  ELSE elementAtOrDefaultLoop(m.w, m.e, i - 1, defaultValue)

\* Enumerable.elementAtOrDefault: while (true)
elementAtOrDefaultLoop(w, e, i, defaultValue) ==
  elementAtOrDefaultMoved(curMoveNext(w, e), i, defaultValue)

\* Enumerable.elementAtOrDefault over the cursor g that getEnumerator() gave
elementAtOrDefaultOver(g, index, defaultValue) ==
  elementAtOrDefaultLoop(g.w, g.e, index, defaultValue)

\* Enumerable.elementAtOrDefault(source, index, defaultValue = null)
elementAtOrDefault(w, source, index, defaultValue) ==
  IF index < 0 THEN Returns(w, getOrDefaultValue(defaultValue))
  ELSE elementAtOrDefaultOver(getEnumerator(w, source), index,
                              getOrDefaultValue(defaultValue))

\* -------------------------------------------------------------- aggregate
\* accumulator: (acc, element) => 10 * acc + element
accumulator(acc, element) == 10 * acc + element

\* e.reset() on the cursor e a terminal operator holds
curReset(w, e) ==
  IF e.kind = "sm" THEN [w |-> reset(w, e.id), e |-> e]
  ELSE [w |-> w, e |-> [e EXCEPT !.idx = -1]]

RECURSIVE aggregateLoop(_, _, _)

\* Enumerable.aggregate: result = accumulator(result, e.current), the call
\* logged with the element and what it returned
aggregateStep(w, e, result) ==
  aggregateLoop([w EXCEPT !.tr = Append(@, Ev("accumulator", 0, curCurrent(w, e),
                                             accumulator(result, curCurrent(w, e))))],
                e, accumulator(result, curCurrent(w, e)))

\* Enumerable.aggregate: the body of while (e.moveNext()), and the return
aggregateMoved(m, result) ==
  IF m.ret = "throw" THEN Thrown(m.w)
  ELSE IF m.ret = "false" THEN Returns(m.w, result)
  ELSE aggregateStep(m.w, m.e, result)

\* Enumerable.aggregate: while (e.moveNext())
aggregateLoop(w, e, result) == aggregateMoved(curMoveNext(w, e), result)

\* Enumerable.aggregate: the loop over the cursor as r, a reset, left it
aggregateFrom(r, result) == aggregateLoop(r.w, r.e, result)

\* aggregateUnseeded resetting the cursor as is done for a seed
aggregateUnseededAgain(m) == aggregateFrom(curReset(m.w, m.e), curCurrent(m.w, m.e))

\* Enumerable.aggregate: if (isNil(seed)) result = e.current
aggregateUnseeded(m) == aggregateLoop(m.w, m.e, curCurrent(m.w, m.e))

\* Enumerable.aggregate: if (!e.moveNext()) throw empty; then the seed, with
\* e.reset(), or the first element
aggregateFirst(m, seed) ==
  IF m.ret = "throw" THEN Thrown(m.w)
  ELSE IF m.ret = "false" THEN Raises(m.w, "empty")
  ELSE IF seed = Undefined THEN aggregateUnseeded(m)
  ELSE aggregateFrom(curReset(m.w, m.e), seed)

\* Enumerable.aggregate over the cursor g that getEnumerator() gave
aggregateOver(g, seed) == aggregateFirst(curMoveNext(g.w, g.e), seed)

\* Enumerable.aggregate(source, accumulator, seed?)
aggregate(w, source, seed) == aggregateOver(getEnumerator(w, source), seed)

\* ---------------------------------------------------------- sequenceEqual
\* EqualityComparer.default: Object.is(x, y)
equalityComparer(x, y) == x = y

RECURSIVE sequenceEqualLoop(_, _, _)

\* Enumerable.sequenceEqual: the right operand of the return, !e2.moveNext()
sequenceEqualLast(m) ==
  IF m.ret = "throw" THEN Thrown(m.w) ELSE Returns(m.w, m.ret = "false")

\* Enumerable.sequenceEqual: the left operand of the return, !e1.moveNext(),
\* the right one evaluated only when it is true
sequenceEqualEnded(m, e2) ==
  IF m.ret = "throw" THEN Thrown(m.w)
  ELSE IF m.ret = "true" THEN Returns(m.w, FALSE)
  ELSE sequenceEqualLast(curMoveNext(m.w, e2))

\* Enumerable.sequenceEqual: return !e1.moveNext() && !e2.moveNext()
sequenceEqualReturn(w, e1, e2) == sequenceEqualEnded(curMoveNext(w, e1), e2)

\* Enumerable.sequenceEqual: if (!equalityComparer(e1.current, e2.current))
\* return false
sequenceEqualCompared(w, e1, e2) ==
  IF ~equalityComparer(curCurrent(w, e1), curCurrent(w, e2)) THEN Returns(w, FALSE)
  ELSE sequenceEqualLoop(w, e1, e2)

\* Enumerable.sequenceEqual: the right operand of the loop condition,
\* e2.moveNext()
sequenceEqualSecondMoved(m, e1) ==
  IF m.ret = "throw" THEN Thrown(m.w)
  ELSE IF m.ret = "false" THEN sequenceEqualReturn(m.w, e1, m.e)
  ELSE sequenceEqualCompared(m.w, e1, m.e)

\* Enumerable.sequenceEqual: the left operand of the loop condition,
\* e1.moveNext(), the right one evaluated only when it is true
sequenceEqualFirstMoved(m, e2) ==
  IF m.ret = "throw" THEN Thrown(m.w)
  ELSE IF m.ret = "false" THEN sequenceEqualReturn(m.w, m.e, e2)
  ELSE sequenceEqualSecondMoved(curMoveNext(m.w, e2), m.e)

\* Enumerable.sequenceEqual: while (e1.moveNext() && e2.moveNext())
sequenceEqualLoop(w, e1, e2) == sequenceEqualFirstMoved(curMoveNext(w, e1), e2)

\* Enumerable.sequenceEqual over the cursors e1 and g.e
sequenceEqualOver(g, e1) == sequenceEqualLoop(g.w, e1, g.e)

\* Enumerable.sequenceEqual: e2 = second.getEnumerator()
sequenceEqualSecond(g, second) == sequenceEqualOver(getEnumerator(g.w, second), g.e)

\* Enumerable.sequenceEqual(first, second)
sequenceEqual(w, first, second) == sequenceEqualSecond(getEnumerator(w, first), second)

\* ------------------------------------------------------------------ count
\* the native collections a caller builds from the elements of the backing
\* array: the array itself, new Set(array), a Map keyed by the elements, and
\* the string of the elements
Containers == {"array", "set", "map", "string"}

\* source.length of an array or string, source.size of a Set or Map
nativeSize(kind) ==
  IF kind \in {"set", "map"} THEN Cardinality({arr[i] : i \in DOMAIN arr}) ELSE Len(arr)

\* Enumerable.count asking the collection for a cursor before it answers
countNativeAsks(w, kind) == Returns(getEnumerator(w, 0).w, nativeSize(kind))

\* Enumerable.count(source) on an array, Set, Map or string: return
\* source.length or source.size
countNative(w, kind) == Returns(w, nativeSize(kind))

\* Enumerable.count: return count, c being what the loop over the cursor did
countReturned(c) == IF c.ret = "throw" THEN Thrown(c.w) ELSE Returns(c.w, c.count)

\* ------------------------------------------------------------ first, last
RECURSIVE firstLoop(_, _, _), lastLoop(_, _, _, _, _)

\* Enumerable.first: if (!hasPredicate || predicate(value)) return value
firstTested(r, e, hasPredicate, value) ==
  IF r.res = THROWN THEN Thrown(r.w)
  ELSE IF r.res = 1 THEN Returns(r.w, value)
  ELSE firstLoop(r.w, e, hasPredicate)

\* Enumerable.first: the body of while (e.moveNext()), and the throw of
\* noMatch or empty after the loop
firstMoved(m, hasPredicate) ==
  IF m.ret = "throw" THEN Thrown(m.w)
  ELSE IF m.ret = "false" THEN Raises(m.w, IF hasPredicate THEN "noMatch" ELSE "empty")
  ELSE IF ~hasPredicate THEN Returns(m.w, curCurrent(m.w, m.e))
  ELSE firstTested(call(m.w, "predicate", curCurrent(m.w, m.e)), m.e, hasPredicate,
                   curCurrent(m.w, m.e))

\* Enumerable.first: while (e.moveNext())
firstLoop(w, e, hasPredicate) == firstMoved(curMoveNext(w, e), hasPredicate)

\* Enumerable.first over the cursor g that getEnumerator() gave
firstOver(g, hasPredicate) == firstLoop(g.w, g.e, hasPredicate)

\* Enumerable.first(source, predicate?): const e = source.getEnumerator()
firstOf(w, source, hasPredicate) == firstOver(getEnumerator(w, source), hasPredicate)

\* Enumerable.last: if (!hasPredicate || predicate(element)) { result =
\* element; found = true; }
lastTested(r, e, hasPredicate, result, found, element) ==
  IF r.res = THROWN THEN Thrown(r.w)
  ELSE IF r.res = 1 THEN lastLoop(r.w, e, hasPredicate, element, TRUE)
  ELSE lastLoop(r.w, e, hasPredicate, result, found)

\* Enumerable.last: the body of while (e.moveNext()), and after the loop
\* return result if found, else the throw of noMatch or empty
lastMoved(m, hasPredicate, result, found) ==
  IF m.ret = "throw" THEN Thrown(m.w)
  ELSE IF m.ret = "false"
    THEN (IF found THEN Returns(m.w, result)
          ELSE Raises(m.w, IF hasPredicate THEN "noMatch" ELSE "empty"))
  ELSE IF ~hasPredicate THEN lastLoop(m.w, m.e, hasPredicate, curCurrent(m.w, m.e), TRUE)
  ELSE lastTested(call(m.w, "predicate", curCurrent(m.w, m.e)), m.e, hasPredicate,
                  result, found, curCurrent(m.w, m.e))

\* Enumerable.last: while (e.moveNext())
lastLoop(w, e, hasPredicate, result, found) ==
  lastMoved(curMoveNext(w, e), hasPredicate, result, found)

\* Enumerable.last over the cursor g that getEnumerator() gave
lastOver(g, hasPredicate) == lastLoop(g.w, g.e, hasPredicate, Null, FALSE)

\* Enumerable.last(source, predicate?): an array that is not empty, asked
\* without predicate, gives source[length - 1]
lastOf(w, source, hasPredicate) ==
  IF source = 0 /\ ~hasPredicate /\ Len(arr) > 0 THEN Returns(w, arr[Len(arr)])
  ELSE lastOver(getEnumerator(w, source), hasPredicate)

\* ------------------------------------------------- IndexableIterator object

\* IndexableIterator.moveNext(): this._idx++; return false when this._idx >=
\* this._source.length, true otherwise
indexMoveNext(it) ==
  [it |-> [it EXCEPT !.idx = @ + 1],
   ret |-> IF it.idx + 1 >= Len(arr) THEN "false" ELSE "true"]

\* IndexableIterator.reset(): this._idx = -1
indexReset(it) == [it EXCEPT !.idx = -1]

\* -------------------------------------------------------------------- toMap
RECURSIVE toMapLoop(_, _, _)

\* keySelector given to toMap: (x) => x < 2 ? null : x
toMapKeySelector(v) == IF v < 2 THEN Null ELSE v

\* valueSelector given to toMap: (x) => 10 * x
toMapValueSelector(v) == 10 * v

\* isNil(value): value === null || value === undefined
isNil(v) == v = Null \/ v = Undefined

\* a selector called by toMap on element v, logged with its result
selected(w, fn, v, res) == [w EXCEPT !.tr = Append(@, Ev(fn, 0, v, res))]

\* Map.set(key, value): the value of a key the map has is replaced where it
\* is, a new key goes to the end
mapSet(map, key, value) ==
  IF \E i \in DOMAIN map : map[i].key = key
    THEN [i \in DOMAIN map |-> IF map[i].key = key THEN [key |-> key, value |-> value]
                                                    ELSE map[i]]
    ELSE Append(map, [key |-> key, value |-> value])

\* Enumerable.toMap: map.set(keySelector(element), valueSelector(element)),
\* the arguments evaluated from the left
toMapSet(w, map, element) ==
  mapSet(map, toMapKeySelector(element), toMapValueSelector(element))

\* Enumerable.toMap, the body of the loop: const key = keySelector(element);
\* if (isNil(key)) throw invalidOperation; map.set(keySelector(element),
\* valueSelector(element))
toMapElement(w, e, map, element) ==
  IF isNil(toMapKeySelector(element))
    THEN Raises(selected(w, "keySelector", element, toMapKeySelector(element)),
                "invalidOperation")
    ELSE toMapLoop(selected(selected(selected(w, "keySelector", element, toMapKeySelector(element)),
                                 "keySelector", element, toMapKeySelector(element)),
                          "valueSelector", element, toMapValueSelector(element)),
                   e, toMapSet(w, map, element))

\* Enumerable.toMap: while (e.moveNext()), and return map after the loop
toMapMoved(m, map) ==
  IF m.ret = "throw" THEN Thrown(m.w)
  ELSE IF m.ret = "false" THEN Returns(m.w, map)
  ELSE toMapElement(m.w, m.e, map, curCurrent(m.w, m.e))

toMapLoop(w, e, map) == toMapMoved(curMoveNext(w, e), map)

\* Enumerable.toMap over the cursor g that getEnumerator() gave
toMapOver(g) == toMapLoop(g.w, g.e, <<>>)

\* Enumerable.toMap(source, keySelector, valueSelector)
toMap(w, source) == toMapOver(getEnumerator(w, source))

\* ------------------------------------------------------------------ state
Allocated(h) == {i \in DOMAIN h : h[i].op # "none"}
Sources(h) == {0} \cup Allocated(h)
Fresh(h) == Cardinality(Allocated(h)) + 1

NoObs == [staged |-> Undefined, ended |-> FALSE, phase |-> "new"]

Max(S) == CHOOSE x \in S : \A y \in S : y <= x
Min(S) == CHOOSE x \in S : \A y \in S : x <= y

\* What a call with trace tr adds to the observations o: per cursor, the
\* value of the latest moveNext() that returned true (staged), whether a
\* moveNext() has returned false since the last reset() (ended), and whether
\* it is new, reset and not moved since, or moved.
Observe(o, tr) ==
  [id \in DOMAIN o |->
    LET yields == {i \in DOMAIN tr : tr[i].ev = "nextReturn" /\ tr[i].on = id
                                      /\ tr[i].res \notin {DONE, THROWN}}
        falses == {i \in DOMAIN tr : tr[i] = Ev("return", id, 0, 0)}
        moved == \E i \in DOMAIN tr : tr[i] = Ev("moveNext", id, 0, 0)
    IN [staged |-> IF yields = {} THEN o[id].staged ELSE tr[Max(yields)].res,
        ended |-> o[id].ended \/ falses # {},
        phase |-> IF moved THEN "moved" ELSE o[id].phase]]

\* The record of a call: was is what had been observed of its target before,
\* args what a terminal operator was given besides its source.
Call(op, id, ret, array, w) ==
  [op |-> op, id |-> id, ret |-> ret, array |-> array, tr |-> w.tr, err |-> w.err,
   was |-> IF id \in DOMAIN obs THEN obs[id] ELSE NoObs, args |-> <<>>]

\* No Lookup made yet.
NoLookup == [made |-> FALSE, groupings |-> <<>>, created |-> <<>>]

Init ==
  /\ arr \in Arrays
  /\ heap = [i \in Objs |-> NoObj]
  /\ cons = [c \in Consumers |-> 0]
  /\ consq = [c \in Consumers |-> 0]
  /\ obs = [i \in Objs |-> NoObs]
  /\ last = Call("init", 0, "ok", <<>>, World(heap))
  /\ hist = <<>>
  /\ lookup = NoLookup

\* create running the setup function at once
createEager(w, op, source) ==
  setup([w EXCEPT !.h[Fresh(w.h)] = EnumeratorStateMachineImpl(op, source)], Fresh(w.h))

\* EnumeratorStateMachine.create(setup), as every lazy operator calls it: the
\* new machine is all the call produces.
create(w, op, source) ==
  [w EXCEPT !.h[Fresh(w.h)] = EnumeratorStateMachineImpl(op, source)]

\* Enumerable.where(source, predicate)
Where(source) ==
  /\ Fresh(heap) \in Objs
  /\ LET c == create(World(heap), "where", source) IN
       /\ heap' = c.h
       /\ last' = Call("where", Fresh(heap), "ok", <<>>, c)
       /\ obs' = Observe(obs, c.tr)
  /\ UNCHANGED <<arr, cons, consq, hist, lookup>>

\* Enumerable.select(source, selector)
Select(source) ==
  /\ Fresh(heap) \in Objs
  /\ LET c == create(World(heap), "select", source) IN
       /\ heap' = c.h
       /\ last' = Call("select", Fresh(heap), "ok", <<>>, c)
       /\ obs' = Observe(obs, c.tr)
  /\ UNCHANGED <<arr, cons, consq, hist, lookup>>

\* a consumer calls q.getEnumerator() on an operator result
GetEnumerator(c, q) ==
  /\ cons[c] = 0
  /\ LET g == getEnumerator(World(heap), q) IN
       /\ cons' = [cons EXCEPT ![c] = g.e.id]
       /\ consq' = [consq EXCEPT ![c] = q]
       /\ last' = Call("getEnumerator", q, "ok", <<>>, g.w)
  /\ UNCHANGED <<arr, heap, hist, obs, lookup>>

\* an operator call with all it is given: the new machine remembers them
Make(name, source, second, n, element) ==
  /\ Fresh(heap) \in Objs
  /\ LET c == [create(World(heap), name, source) EXCEPT
                 !.h[Fresh(heap)].second = second,
                 !.h[Fresh(heap)].count = n,
                 !.h[Fresh(heap)].element = element] IN
       /\ heap' = c.h
       /\ last' = Call(name, Fresh(heap), "ok", <<>>, c)
       /\ obs' = Observe(obs, c.tr)
  /\ UNCHANGED <<arr, cons, consq, hist, lookup>>

\* Enumerable.empty(), as operator by returns it for the count n it was
\* given: a machine whose setup function asks no source for a cursor; the
\* machine has no source and no count, by and count are what the caller knows
\* of it
Empty(by, n) ==
  /\ Fresh(heap) \in Objs
  /\ LET c == [create(World(heap), "empty", 0) EXCEPT
                 !.h[Fresh(heap)].by = by, !.h[Fresh(heap)].count = n] IN
       /\ heap' = c.h
       /\ last' = Call(by, Fresh(heap), "ok", <<>>, c)
       /\ obs' = Observe(obs, c.tr)
  /\ UNCHANGED <<arr, cons, consq, hist, lookup>>

\* Enumerable.take(source, count): if (count <= 0) return Enumerable.empty()
Take(source, n) == IF n <= 0 THEN Empty("take", n) ELSE Make("take", source, 0, n, 0)

\* Enumerable.skip(source, count): if (count <= 0) return Enumerable.empty()
Skip(source, n) == IF n <= 0 THEN Empty("skip", n) ELSE Make("skip", source, 0, n, 0)

\* Enumerable.skipLast(source, count), count > 0
SkipLast(source, n) == Make("skipLast", source, 0, n, 0)

\* Enumerable.reverse(source)
Reverse(source) == Make("reverse", source, 0, 0, 0)

\* Enumerable.takeWhile(source, predicate)
TakeWhile(source) == Make("takeWhile", source, 0, 0, 0)

\* Enumerable.takeLast(source, count), count > 0
TakeLast(source, n) == Make("takeLast", source, 0, n, 0)

\* Enumerable.chain(first, second)
Chain(first, second) == Make("chain", first, second, 0, 0)

\* Enumerable.append(source, element)
AppendTo(source, element) == Make("append", source, 0, 0, element)

\* Enumerable.prepend(source, element)
Prepend(source, element) == Make("prepend", source, 0, 0, element)

\* Enumerable.selectMany(source, collectionSelector)
SelectMany(source) == Make("selectMany", source, 0, 0, 0)

\* Enumerable.innerJoin(outer, inner, outerKeySelector, innerKeySelector,
\* resultSelector)
InnerJoin(outer, inner) == Make("innerJoin", outer, inner, 0, 0)

\* Enumerable.groupJoin(outer, inner, outerKeySelector, innerKeySelector,
\* resultSelector)
GroupJoin(outer, inner) == Make("groupJoin", outer, inner, 0, 0)

\* an operator call of a program that builds up to three operator results
MakeThird(name, first, second) ==
  /\ Fresh(heap) \in DOMAIN heap
  /\ LET c == [create(World(heap), name, first) EXCEPT !.h[Fresh(heap)].second = second] IN
       /\ heap' = c.h
       /\ last' = Call(name, Fresh(heap), "ok", <<>>, c)
       /\ obs' = Observe(obs, c.tr)
  /\ UNCHANGED <<arr, cons, consq, hist, lookup>>

\* Enumerable.zip(first, second, resultSelector)
Zip(first, second) == Make("zip", first, second, 0, 0)

\* Enumerable.union(first, second)
Union(first, second) == MakeThird("union", first, second)

\* Enumerable.except(first, second)
Except(first, second) == MakeThird("except", first, second)

\* a call given args that ends by throwing error: it is all the call does
Fails(name, args, error) ==
  /\ last' = [Call(name, 0, "throw", <<>>, [World(heap) EXCEPT !.err = error])
                EXCEPT !.args = args]
  /\ hist' = <<>>
  /\ UNCHANGED <<arr, heap, cons, consq, obs, lookup>>

\* a chunking operator call with all it is given
MakeChunk(name, source, size, defaultValue) ==
  /\ Fresh(heap) \in Objs
  /\ LET c == [create(World(heap), name, source) EXCEPT
                 !.h[Fresh(heap)].size = size,
                 !.h[Fresh(heap)].defaultValue = defaultValue] IN
       /\ heap' = c.h
       /\ last' = Call(name, Fresh(heap), "ok", <<>>, c)
       /\ obs' = Observe(obs, c.tr)
  /\ UNCHANGED <<arr, cons, consq, hist, lookup>>

\* Enumerable.chunk(source, size)
Chunk(source, size) ==
  IF size <= 0 THEN Fails("chunk", <<size>>, ThrowHelper("argumentOutOfRange"))
  ELSE MakeChunk("chunk", source, size, Undefined)

\* Enumerable.chunkOrDefault(source, size, defaultValue)
ChunkOrDefault(source, size, defaultValue) ==
  IF size <= 0
    THEN Fails("chunkOrDefault", <<size, defaultValue>>, ThrowHelper("argumentOutOfRange"))
  ELSE MakeChunk("chunkOrDefault", source, size, defaultValue)

\* The histories kept for one pass stay bounded.
Room(h) == \A i \in DOMAIN h : Len(h[i].pulled) < MaxPulled \/ h[i].state = Setup

\* a terminal operator called on source with args: t is what it did
Terminal(name, source, args, t) ==
  /\ Room(heap)
  /\ heap' = t.w.h
  /\ last' = [Call(name, source, t.ret, IF t.ret = "ok" THEN <<t.value>> ELSE <<>>, t.w)
                EXCEPT !.args = args]
  /\ obs' = Observe(obs, t.w.tr)
  /\ hist' = <<>>
  /\ arr' = t.w.arr
  /\ UNCHANGED <<cons, consq, lookup>>

\* Enumerable.single(source, predicate?)
Single(source, hasPredicate) ==
  Terminal("single", source, <<hasPredicate>>, single(World(heap), source, hasPredicate))

\* Enumerable.singleOrDefault(source, predicate?, defaultValue?)
SingleOrDefault(source, hasPredicate, defaultValue) ==
  Terminal("singleOrDefault", source, <<hasPredicate, defaultValue>>,
           singleOrDefault(World(heap), source, hasPredicate, defaultValue))

\* Enumerable.firstOrDefault(source, predicate?, defaultValue?)
FirstOrDefault(source, hasPredicate, defaultValue) ==
  Terminal("firstOrDefault", source, <<hasPredicate, defaultValue>>,
           firstOrDefault(World(heap), source, hasPredicate, defaultValue))

\* Enumerable.lastOrDefault(source, predicate?, defaultValue?)
LastOrDefault(source, hasPredicate, defaultValue) ==
  Terminal("lastOrDefault", source, <<hasPredicate, defaultValue>>,
           lastOrDefault(World(heap), source, hasPredicate, defaultValue))

\* Enumerable.elementAtOrDefault(source, index, defaultValue?)
ElementAtOrDefault(source, index, defaultValue) ==
  Terminal("elementAtOrDefault", source, <<index, defaultValue>>,
           elementAtOrDefault(World(heap), source, index, defaultValue))

\* Enumerable.aggregate(source, accumulator, seed?)
Aggregate(source, seed) ==
  Terminal("aggregate", source, <<seed>>, aggregate(World(heap), source, seed))

\* Enumerable.sequenceEqual(first, second)
SequenceEqual(first, second) ==
  Terminal("sequenceEqual", first, <<second>>, sequenceEqual(World(heap), first, second))

\* Enumerable.count(source) on a native collection of the given kind
CountNative(kind) ==
  Terminal("count", 0, <<kind>>, countNative(World(heap), kind))

\* Enumerable.count(source) on an operator result
Count(source) ==
  Terminal("count", source, <<"machine">>, countReturned(count(World(heap), source)))

\* Enumerable.first(source, predicate?)
First(source, hasPredicate) ==
  Terminal("first", source, <<hasPredicate>>, firstOf(World(heap), source, hasPredicate))

\* Enumerable.last(source, predicate?)
Last(source, hasPredicate) ==
  Terminal("last", source, <<hasPredicate>>, lastOf(World(heap), source, hasPredicate))

\* new IndexableIterator(array), as array.getEnumerator() and
\* string.getEnumerator() build it: the caller keeps the cursor
NewIndexableIterator ==
  /\ Fresh(heap) \in Objs
  /\ heap' = [heap EXCEPT ![Fresh(heap)] =
                [NoObj EXCEPT !.op = "IndexableIterator", !.idx = IndexableIterator.idx]]
  /\ last' = Call("getEnumerator", Fresh(heap), "ok", <<>>, World(heap))
  /\ UNCHANGED <<arr, cons, consq, obs, hist, lookup>>

\* the caller calls moveNext() on a cursor of the array it keeps
IndexMoveNext(id) ==
  /\ heap[id].op = "IndexableIterator"
  /\ heap[id].idx < Len(arr) + MaxPast
  /\ heap' = [heap EXCEPT ![id] = indexMoveNext(heap[id]).it]
  /\ last' = Call("moveNext", id, indexMoveNext(heap[id]).ret, <<>>, World(heap))
  /\ UNCHANGED <<arr, cons, consq, obs, hist, lookup>>

\* the caller calls reset() on a cursor of the array it keeps
IndexReset(id) ==
  /\ heap[id].op = "IndexableIterator"
  /\ heap' = [heap EXCEPT ![id] = indexReset(heap[id])]
  /\ last' = Call("reset", id, "ok", <<>>, World(heap))
  /\ UNCHANGED <<arr, cons, consq, obs, hist, lookup>>

\* Enumerable.toMap(source, keySelector, valueSelector)
ToMap(source) == Terminal("toMap", source, <<>>, toMap(World(heap), source))

\* a caller calls moveNext() on a state machine cursor
MoveNext(id) ==
  /\ Room(heap)
  /\ LET m == moveNext(World(heap), id) IN
       /\ heap' = m.w.h
       /\ last' = Call("moveNext", id, m.ret, <<>>, m.w)
       /\ obs' = Observe(obs, m.w.tr)
       /\ arr' = m.w.arr
  /\ hist' = <<>>
  /\ UNCHANGED <<cons, consq, lookup>>

\* hist keeps the calls that can still become "drain, drain" or "drain,
\* reset, drain" on one sequence.
Run(s) ==
  \/ s = <<>>
  \/ /\ s[1].op = "toArray"
     /\ \A i \in DOMAIN s : s[i].id = s[1].id
     /\ Len(s) <= 3
     /\ Len(s) = 3 => s[2].op = "reset" /\ s[3].op = "toArray"
RECURSIVE Window(_)
Window(s) == IF Run(s) THEN s ELSE Window(Tail(s))

\* a caller calls reset() on a state machine cursor
Reset(id) ==
  /\ LET r == reset(World(heap), id) IN
       /\ heap' = r.h
       /\ last' = Call("reset", id, "ok", <<>>, r)
       /\ obs' = [Observe(obs, r.tr) EXCEPT ![id].ended = FALSE, ![id].phase = "reset"]
       /\ arr' = r.arr
  /\ hist' = IF hist = <<>> THEN hist
             ELSE Window(Append(hist, [op |-> "reset", id |-> id, array |-> <<>>,
                                       fresh |-> FALSE]))
  /\ UNCHANGED <<cons, consq, lookup>>

\* a caller calls toArray() on an operator result
ToArray(q) ==
  /\ Room(heap)
  /\ LET t == toArray(World(heap), q) IN
       /\ heap' = t.w.h
       /\ last' = Call("toArray", q, t.ret, t.array, t.w)
       /\ obs' = Observe(obs, t.w.tr)
       /\ hist' = IF t.ret = "ok"
                    THEN Window(Append(hist, [op |-> "toArray", id |-> q, array |-> t.array,
                                              fresh |-> obs[q].phase # "moved"]))
                    ELSE <<>>
       /\ arr' = t.w.arr
  /\ UNCHANGED <<cons, consq, lookup>>

\* Lookup.create(source, keySelector) by the client
NewLookup(source) ==
  /\ ~lookup.made
  /\ LET t == LookupCreate(World(heap), source) IN
       /\ heap' = t.w.h
       /\ last' = Call("Lookup.create", 0, t.ret, <<>>, t.w)
       /\ obs' = Observe(obs, t.w.tr)
       /\ lookup' = IF t.ret = "ok"
                      THEN [made |-> TRUE, groupings |-> t.groupings, created |-> t.groupings]
                      ELSE lookup
  /\ hist' = <<>>
  /\ UNCHANGED <<arr, cons, consq>>

\* lookup.getGroupElements(key) by the client: the elements are returned
GetGroupElements(key) ==
  /\ lookup.made
  /\ last' = Call("getGroupElements", 0, "ok", groupElements(lookup.groupings, key),
                  World(heap))
  /\ UNCHANGED <<arr, heap, cons, consq, hist, obs, lookup>>

\* the groupings of a lookup and their elements, counted
RECURSIVE Size(_)
Size(groupings) ==
  IF groupings = <<>> THEN 0
  ELSE 1 + Len(Head(groupings).elements) + Size(Tail(groupings))

\* the client has not yet added all it adds to the lookup
MayChange == Size(lookup.groupings) < Size(lookup.created) + MaxChanges

\* lookup.getGrouping(key, create) by the client
GetGrouping(key, create_) ==
  /\ lookup.made
  /\ create_ => MayChange
  /\ lookup' = [lookup EXCEPT !.groupings =
                  IF create_ THEN getGroupingCreate(@, key) ELSE @]
  /\ last' = Call("getGrouping", 0, "ok", groupElements(lookup.groupings, key),
                  World(heap))
  /\ UNCHANGED <<arr, heap, cons, consq, hist, obs>>

\* lookup.getGroups()[g - 1].add(element) by the client
GroupingAdd(g, element) ==
  /\ lookup.made
  /\ g \in DOMAIN lookup.groupings
  /\ MayChange
  /\ lookup' = [lookup EXCEPT !.groupings = add(@, g, element)]
  /\ last' = Call("add", 0, "ok", <<>>, World(heap))
  /\ UNCHANGED <<arr, heap, cons, consq, hist, obs>>

\* a program that filters, and drives and restarts the cursors by hand
NextWhere ==
  \/ \E s \in Sources(heap) : Where(s)
  \/ \E id \in Allocated(heap) : MoveNext(id)
  \/ \E id \in Allocated(heap) : Reset(id)

\* a program that projects, and drives and restarts the cursors by hand
NextSelect ==
  \/ \E s \in Sources(heap) : Select(s)
  \/ \E id \in Allocated(heap) : MoveNext(id)
  \/ \E id \in Allocated(heap) : Reset(id)

\* a program that mixes the operators and advances the cursors by hand and
\* through terminal operators
Next ==
  \/ \E s \in Sources(heap) : Where(s)
  \/ \E s \in Sources(heap) : Select(s)
  \/ \E id \in Allocated(heap) : MoveNext(id)
  \/ \E q \in Allocated(heap) : ToArray(q)

\* consumers that ask sequences for cursors and advance the cursor they got
NextConsumers ==
  \/ \E s \in Sources(heap) : Where(s)
  \/ \E s \in Sources(heap) : Select(s)
  \/ \E c \in Consumers : \E q \in Allocated(heap) : GetEnumerator(c, q)
  \/ \E c \in Consumers : cons[c] # 0 /\ MoveNext(cons[c])

\* a program that only drains and restarts
NextDrain ==
  \/ \E s \in Sources(heap) : Where(s)
  \/ \E id \in Allocated(heap) : Reset(id)
  \/ \E q \in Allocated(heap) : ToArray(q)

\* a program that takes the first elements of sequences
NextTake ==
  \/ \E s \in Sources(heap) : \E n \in 1..MaxCount : Take(s, n)
  \/ \E id \in Allocated(heap) : MoveNext(id)
  \/ \E q \in Allocated(heap) : ToArray(q)

\* a program that takes elements while they match, by hand
NextTakeWhile ==
  \/ \E s \in Sources(heap) : TakeWhile(s)
  \/ \E id \in Allocated(heap) : MoveNext(id)
  \/ \E id \in Allocated(heap) : Reset(id)

\* a program that takes the last elements of sequences
NextTakeLast ==
  \/ \E s \in Sources(heap) : \E n \in 1..MaxCount : TakeLast(s, n)
  \/ \E id \in Allocated(heap) : MoveNext(id)
  \/ \E q \in Allocated(heap) : ToArray(q)

\* a program that flattens sequences
NextSelectMany ==
  \/ \E s \in Sources(heap) : SelectMany(s)
  \/ \E id \in Allocated(heap) : MoveNext(id)
  \/ \E q \in Allocated(heap) : ToArray(q)

\* a program that joins sequences
NextInnerJoin ==
  \/ \E o, i \in Sources(heap) : InnerJoin(o, i)
  \/ \E id \in Allocated(heap) : MoveNext(id)
  \/ \E q \in Allocated(heap) : ToArray(q)

\* a program that joins sequences into groups
NextGroupJoin ==
  \/ \E o, i \in Sources(heap) : GroupJoin(o, i)
  \/ \E id \in Allocated(heap) : MoveNext(id)
  \/ \E q \in Allocated(heap) : ToArray(q)

\* a program that chains sequences
NextChain ==
  \/ \E f, s \in Sources(heap) : Chain(f, s)
  \/ \E id \in Allocated(heap) : MoveNext(id)
  \/ \E q \in Allocated(heap) : ToArray(q)

\* a program that makes a lookup of the array and uses it
NextLookup ==
  \/ NewLookup(0)
  \/ \E key \in Values : GetGroupElements(key)
  \/ \E key \in Values : \E c \in BOOLEAN : GetGrouping(key, c)
  \/ \E g \in DOMAIN lookup.groupings : \E v \in Values : GroupingAdd(g, v)

\* a program that puts an element after or before sequences
NextAppend ==
  \/ \E s \in Sources(heap) : \E v \in Given : AppendTo(s, v)
  \/ \E s \in Sources(heap) : \E v \in Given : Prepend(s, v)
  \/ \E id \in Allocated(heap) : MoveNext(id)
  \/ \E q \in Allocated(heap) : ToArray(q)

\* a program that zips sequences
NextZip ==
  \/ \E f, s \in Sources(heap) : Zip(f, s)
  \/ \E id \in Allocated(heap) : MoveNext(id)
  \/ \E q \in Allocated(heap) : ToArray(q)

\* no operator result of operator op has been made yet
NoneYet(op) == \A q \in Allocated(heap) : heap[q].op # op

\* a program that projects sequences, unites two sequences and drains the
\* results
NextUnion ==
  \/ \E s \in Sources(heap) : Select(s)
  \/ \E f, s \in Sources(heap) : NoneYet("union") /\ Union(f, s)
  \/ \E q \in Allocated(heap) : ToArray(q)

\* a program that projects sequences, takes one sequence from another and
\* drains the results
NextExcept ==
  \/ \E s \in Sources(heap) : Select(s)
  \/ \E f, s \in Sources(heap) : NoneYet("except") /\ Except(f, s)
  \/ \E q \in Allocated(heap) : ToArray(q)

\* the sequences whose elements are numbers below ten: the array and the
\* projections
Plain(h) == {0} \cup {q \in Allocated(h) : h[q].op = "select"}

\* the default the caller gives to chunkOrDefault: none, or the empty array
Defaults == {Undefined, 0}

\* a program that projects sequences and cuts them into chunks
NextChunk ==
  \/ \E s \in Plain(heap) : Select(s)
  \/ \E s \in Plain(heap) : \E size \in 0..MaxSize : Chunk(s, size)
  \/ \E id \in Allocated(heap) : MoveNext(id)
  \/ \E q \in Allocated(heap) : ToArray(q)

\* a program that projects sequences, cuts them into chunks of one size and
\* drains the results
NextChunkOrDefault ==
  \/ \E s \in Plain(heap) : Select(s)
  \/ \E s \in Plain(heap) : \E size \in 0..MaxSize : \E d \in Defaults :
       ChunkOrDefault(s, size, d)
  \/ \E q \in Allocated(heap) : ToArray(q)

\* a program that filters sequences and asks them for their single element
NextSingle ==
  \/ \E s \in Sources(heap) : Where(s)
  \/ \E s \in Sources(heap) : \E p \in BOOLEAN : Single(s, p)
  \/ \E id \in Allocated(heap) : MoveNext(id)

\* a program that cuts the array into chunks and asks the array and the
\* sequence of chunks for an element or a default
NextOrDefault ==
  \/ \E s \in Sources(heap) : \E p \in BOOLEAN : \E d \in Defaults : SingleOrDefault(s, p, d)
  \/ \E s \in Sources(heap) : \E p \in BOOLEAN : \E d \in Defaults : FirstOrDefault(s, p, d)
  \/ \E s \in Sources(heap) : \E p \in BOOLEAN : \E d \in Defaults : LastOrDefault(s, p, d)
  \/ \E s \in Sources(heap) : \E i \in -1..MaxLen : \E d \in Defaults :
       ElementAtOrDefault(s, i, d)
  \/ \E size \in 0..MaxSize : \E d \in Defaults :
       NoneYet("chunkOrDefault") /\ ChunkOrDefault(0, size, d)

\* the seed the caller gives to aggregate: none, or a number
Seeds == {Undefined, 0, 1}

\* a program that projects sequences and folds them
NextAggregate ==
  \/ \E s \in Sources(heap) : Select(s)
  \/ \E s \in Sources(heap) : \E seed \in Seeds : Aggregate(s, seed)
  \/ \E id \in Allocated(heap) : MoveNext(id)

\* a program that filters sequences and compares them
NextSequenceEqual ==
  \/ \E s \in Sources(heap) : Where(s)
  \/ \E s \in Sources(heap) : Select(s)
  \/ \E f \in Sources(heap) : \E s \in Sources(heap) : SequenceEqual(f, s)
  \/ \E id \in Allocated(heap) : MoveNext(id)

\* a program that counts native collections and operator results
NextCount ==
  \/ \E s \in Sources(heap) : Where(s)
  \/ \E k \in Containers : CountNative(k)
  \/ \E q \in Allocated(heap) : Count(q)
  \/ \E id \in Allocated(heap) : MoveNext(id)

\* a program that filters sequences and asks them for their first and last
\* element
NextFirstLast ==
  \/ \E s \in Sources(heap) : Where(s)
  \/ \E s \in Sources(heap) : \E p \in BOOLEAN : First(s, p)
  \/ \E s \in Sources(heap) : \E p \in BOOLEAN : Last(s, p)
  \/ \E id \in Allocated(heap) : MoveNext(id)

\* a program that reverses sequences, cuts the array into chunks, advances
\* the cursors by hand and asks for the last element
NextFrame ==
  \/ NoneYet("reverse") /\ Reverse(0)
  \/ \E size \in 1..MaxSize : NoneYet("chunk") /\ Chunk(0, size)
  \/ \E id \in Allocated(heap) : MoveNext(id)
  \/ \E q \in Allocated(heap) : ToArray(q)
  \/ \E s \in Sources(heap) : Last(s, FALSE)

\* a program that keeps cursors of the array and advances them by hand
NextIndexable ==
  \/ NewIndexableIterator
  \/ \E id \in Allocated(heap) : IndexMoveNext(id)
  \/ \E id \in Allocated(heap) : IndexReset(id)

\* a program that takes and skips the first elements of the array
NextSkip ==
  \/ \E n \in 0..MaxCount : Take(0, n)
  \/ \E n \in 0..MaxCount : Skip(0, n)
  \/ \E id \in Allocated(heap) : MoveNext(id)
  \/ \E q \in Allocated(heap) : ToArray(q)

\* a program that filters the array, takes and skips the last elements of
\* sequences and drains the results
NextSkipLast ==
  \/ NoneYet("where") /\ Where(0)
  \/ \E s \in Sources(heap) : \E n \in 1..MaxCount : TakeLast(s, n)
  \/ \E s \in Sources(heap) : \E n \in 1..MaxCount : SkipLast(s, n)
  \/ \E id \in Allocated(heap) : MoveNext(id)
  \/ \E q \in Allocated(heap) : ToArray(q)

\* a program that filters sequences and makes maps of them
NextToMap ==
  \/ \E s \in Sources(heap) : Where(s)
  \/ \E s \in Sources(heap) : ToMap(s)
  \/ \E id \in Allocated(heap) : MoveNext(id)

Spec == Init /\ [][Next]_vars
SpecWhere == Init /\ [][NextWhere]_vars
SpecSelect == Init /\ [][NextSelect]_vars
SpecConsumers == Init /\ [][NextConsumers]_vars
SpecDrain == Init /\ [][NextDrain]_vars
SpecTake == Init /\ [][NextTake]_vars
SpecTakeWhile == Init /\ [][NextTakeWhile]_vars
SpecTakeLast == Init /\ [][NextTakeLast]_vars
SpecSelectMany == Init /\ [][NextSelectMany]_vars
SpecInnerJoin == Init /\ [][NextInnerJoin]_vars
SpecGroupJoin == Init /\ [][NextGroupJoin]_vars
SpecChain == Init /\ [][NextChain]_vars
SpecLookup == Init /\ [][NextLookup]_vars
SpecAppend == Init /\ [][NextAppend]_vars

\* The state of a program that may build one operator result more than
\* MaxObj: no operator result made yet.
InitThree ==
  /\ arr \in Arrays
  /\ heap = [i \in Slots |-> NoObj]
  /\ cons = [c \in Consumers |-> 0]
  /\ consq = [c \in Consumers |-> 0]
  /\ obs = [i \in Slots |-> NoObs]
  /\ last = Call("init", 0, "ok", <<>>, World(heap))
  /\ hist = <<>>
  /\ lookup = NoLookup

SpecZip == Init /\ [][NextZip]_vars
SpecUnion == InitThree /\ [][NextUnion]_vars
SpecExcept == InitThree /\ [][NextExcept]_vars

\* The backing array may have one element more than MaxLen where an operator
\* is about what follows a full buffer.
LongArrays == UNION {[1..n -> Values] : n \in 0..(MaxLen + 1)}

InitLong ==
  /\ arr \in LongArrays
  /\ heap = [i \in Objs |-> NoObj]
  /\ cons = [c \in Consumers |-> 0]
  /\ consq = [c \in Consumers |-> 0]
  /\ obs = [i \in Objs |-> NoObs]
  /\ last = Call("init", 0, "ok", <<>>, World(heap))
  /\ hist = <<>>
  /\ lookup = NoLookup

SpecChunk == InitLong /\ [][NextChunk]_vars
SpecChunkOrDefault == InitLong /\ [][NextChunkOrDefault]_vars

SpecSingle == InitLong /\ [][NextSingle]_vars

SpecOrDefault == Init /\ [][NextOrDefault]_vars

SpecAggregate == InitLong /\ [][NextAggregate]_vars

SpecSequenceEqual == Init /\ [][NextSequenceEqual]_vars

SpecCount == Init /\ [][NextCount]_vars

SpecFirstLast == Init /\ [][NextFirstLast]_vars

SpecFrame == Init /\ [][NextFrame]_vars

SpecIndexable == Init /\ [][NextIndexable]_vars

SpecSkip == InitLong /\ [][NextSkip]_vars

SpecSkipLast == Init /\ [][NextSkipLast]_vars

SpecToMap == Init /\ [][NextToMap]_vars

\* ------------------------------------------------------------- properties
Callbacks == {"predicate", "selector"}
Trace(id, ev) == Ev(ev, id, 0, 0)
ReturnedFalse(id) == Ev("return", id, 0, 0)

\* After position from of trace tr, machine id is only asked to move and only
\* answers false: neither setup() nor next() nor a callback runs for it.
Quiet(tr, id, from) ==
  \A j \in DOMAIN tr : (j > from /\ tr[j].on = id) =>
     \/ tr[j].ev \in {"moveNext", "getEnumerator"}
     \/ tr[j] = ReturnedFalse(id)

\* C1: once moveNext() has returned false on a state machine cursor, every
\* later moveNext() on it returns false and invokes neither setup() nor
\* next(), until reset() is called on it.
ExhaustedStaysExhausted ==
  [][\A id \in Objs :
       /\ obs[id].ended => Quiet(last'.tr, id, 0)
       /\ \A i \in DOMAIN last'.tr :
            last'.tr[i] = ReturnedFalse(id) => Quiet(last'.tr, id, i)]_vars

\* C1 witness: a moveNext() on a cursor that had already returned false
\* returns false at once.
ExhaustedAgain ==
  /\ last.op = "moveNext" /\ last.ret = "false" /\ last.was.ended
  /\ last.tr = <<Trace(last.id, "moveNext"), ReturnedFalse(last.id)>>

\* C2: current of a state machine cursor is the value of the most recent
\* moveNext() that returned true (undefined before the first one); calls that
\* return false leave it there.
CurrentIsLastStaged ==
  \A id \in Objs : heap[id].current = obs[id].staged

\* C2 witness: a cursor that staged a value is asked again after it ended.
CurrentKeptAfterEnd ==
  /\ last.op = "moveNext" /\ last.ret = "false" /\ last.was.ended
  /\ last.was.staged # Undefined
  /\ heap[last.id].current = last.was.staged

\* C3: reset() leaves the cursor in state Setup whatever its state was, and
\* the first moveNext() after it invokes setup() and then next().
ResetRestarts ==
  [][\A id \in Objs :
       /\ (last'.op = "reset" /\ last'.id = id) => heap'[id].state = Setup
       /\ obs[id].phase = "reset" =>
            LET tr == last'.tr
                M == {i \in DOMAIN tr : tr[i] = Trace(id, "moveNext")}
                N == {j \in DOMAIN tr : tr[j] = Trace(id, "next")}
            IN M # {} => /\ Min(M) + 1 \in DOMAIN tr
                         /\ tr[Min(M) + 1] = Trace(id, "setup")
                         /\ N # {}
                         /\ Min(N) > Min(M) + 1]_vars

\* C3 witness: a cursor that had staged a value was reset and then moved.
ResetThenMoved ==
  /\ last.op = "moveNext" /\ last.was.phase = "reset"
  /\ last.was.staged # Undefined
  /\ \E i \in DOMAIN last.tr : last.tr[i] = Trace(last.id, "setup")

\* what consumer d sees of the cursor it holds
Seen(d) == heap[cons[d]]

\* C4: two consumers that called getEnumerator() on the same operator result
\* do not interfere: a moveNext() on the cursor of one leaves the position
\* and current of the cursor of the other unchanged.
ConsumersIndependent ==
  [][\A c, d \in Consumers :
       (/\ c # d /\ cons[c] # 0 /\ cons[d] # 0 /\ consq[c] = consq[d]
        /\ cons' = cons
        /\ last'.op = "moveNext" /\ last'.id = cons[c])
       => Seen(d)' = Seen(d)]_vars

\* C5: two successive toArray() calls on the same operator result return the
\* same elements in the same order.
SameElementsEachDrain ==
  (Len(hist) = 2 /\ hist[1].op = "toArray" /\ hist[2].op = "toArray")
     => hist[1].array = hist[2].array

\* C6: draining the cursor of an operator result that has not been advanced,
\* reset() on it and draining it again yield the same elements.
RestartReproduces ==
  (Len(hist) = 3 /\ hist[1].fresh) => hist[1].array = hist[3].array

Matches(v) == predicate(v) = 1

\* the cursor of the array held by machine id has run off the end
SourceExhausted(id) ==
  heap[id].e.kind = "idx" /\ heap[id].e.idx >= Len(arr)

\* C9: in every pass of a where cursor the predicate is called once on each
\* element pulled from the source, in the order pulled (the array's order),
\* the values yielded are exactly the pulled elements the predicate accepted,
\* and when the array is exhausted they are the matching elements of the array.
WhereFilters ==
  \A id \in Objs : heap[id].op = "where" =>
    /\ heap[id].calls = heap[id].pulled
    /\ heap[id].out = SelectSeq(heap[id].pulled, Matches)
    /\ heap[id].src = 0 => heap[id].pulled = SubSeq(arr, 1, Len(heap[id].pulled))
    /\ (heap[id].src = 0 /\ SourceExhausted(id)) => heap[id].out = SelectSeq(arr, Matches)

\* C9 witness: a where over the array is drained, having dropped an element
\* and yielded one.
WhereDrained ==
  \E id \in Objs :
    /\ heap[id].op = "where" /\ heap[id].src = 0 /\ SourceExhausted(id)
    /\ heap[id].out # <<>> /\ Len(heap[id].out) < Len(arr)

\* C10: while every moveNext() of a pass of a select cursor has returned true,
\* k of them, the selector has been called k times, once on each of the first
\* k elements of the source in order, and the i-th value yielded is the
\* selector's result for the i-th element.
SelectMaps ==
  \A id \in Objs : (heap[id].op = "select" /\ heap[id].state = HasNextElement) =>
    LET k == Len(heap[id].out) IN
      /\ Len(heap[id].calls) = k
      /\ heap[id].calls = heap[id].pulled
      /\ \A i \in 1..k : heap[id].out[i] = selector(heap[id].calls[i])
      /\ heap[id].src = 0 => heap[id].calls = SubSeq(arr, 1, k)

\* C10 witness: two successful moveNext() calls on a select over the array.
SelectTwoSteps ==
  \E id \in Objs :
    /\ heap[id].op = "select" /\ heap[id].src = 0
    /\ heap[id].state = HasNextElement /\ Len(heap[id].out) = 2

\* the calls of moveNext() on machine or array cursor src in trace tr
Advances(tr, src) == {i \in DOMAIN tr : tr[i] = Trace(src, "moveNext")}

\* the call just made was toArray() on a machine of operator op that had
\* never been advanced, and it returned
Drained(op) ==
  /\ last.op = "toArray" /\ last.ret = "ok"
  /\ heap[last.id].op = op
  /\ last.was.phase = "new"

\* C11: draining take(source, n), n >= 1, calls moveNext() on the cursor of
\* the source at most n times.
TakeNeverOverReads ==
  Drained("take") =>
    Cardinality(Advances(last.tr, heap[last.id].src)) <= heap[last.id].count

\* take yields the first n elements of the array (all when there are fewer)
TakeYieldsFirst ==
  (Drained("take") /\ heap[last.id].src = 0) =>
    last.array = SubSeq(arr, 1, Min({Len(arr), heap[last.id].count}))

\* the predicate of takeWhile cursor id has returned false in this pass
Failed(id) ==
  /\ heap[id].op = "takeWhile" /\ heap[id].state = Stop
  /\ heap[id].calls # <<>>
  /\ predicate(heap[id].calls[Len(heap[id].calls)]) = 0

\* what a takeWhile cursor has yielded in a pass: the elements pulled, but
\* for the last one when the predicate did not accept it
YieldsWhileMatching(o) ==
  /\ o.calls = o.pulled
  /\ Len(o.pulled) <= Len(o.out) + 1
  /\ o.out = SubSeq(o.pulled, 1, Len(o.out))
  /\ \A i \in DOMAIN o.out : Matches(o.out[i])
  /\ Len(o.pulled) = Len(o.out) + 1 => ~Matches(o.pulled[Len(o.pulled)])
  /\ o.src = 0 => o.pulled = SubSeq(arr, 1, Len(o.pulled))

\* C12: once the predicate of a takeWhile cursor has returned false for an
\* element, that element and the later ones are never yielded, and later
\* moveNext() calls on the cursor return false without advancing the cursor
\* of the source or calling the predicate.
TakeWhileEnds ==
  [][\A id \in Objs :
       /\ heap'[id].op = "takeWhile" => YieldsWhileMatching(heap'[id])
       /\ (Failed(id) /\ ~(last'.op = "reset" /\ last'.id = id)) =>
            /\ Quiet(last'.tr, id, 0)
            /\ heap'[id] = heap[id]
            /\ (last'.op = "moveNext" /\ last'.id = id) => last'.ret = "false"]_vars

\* C12 witness: a takeWhile over the array whose predicate returned false
\* before the end of the array is asked again.
TakeWhileAskedAgain ==
  /\ last.op = "moveNext" /\ last.ret = "false" /\ last.was.ended
  /\ Failed(last.id)
  /\ heap[last.id].e.kind = "idx" /\ heap[last.id].e.idx + 1 < Len(arr)

\* the last n elements of a sequence, all of them when there are fewer
LastOf(items, n) ==
  SubSeq(items, Max({1, Len(items) - n + 1}), Len(items))

\* C13: draining takeLast(source, n), n >= 1, yields the last n elements of
\* the source in order, all its elements when it has fewer than n.
TakeLastYieldsTail ==
  (Drained("takeLast") /\ heap[last.id].src = 0) =>
    last.array = LastOf(arr, heap[last.id].count)

\* takeLast of an array that has n elements or more
TakeLastOfEnough ==
  (Drained("takeLast") /\ heap[last.id].src = 0 /\ Len(arr) >= heap[last.id].count) =>
    last.array = LastOf(arr, heap[last.id].count)

\* the concatenation of the inner sequences of the elements of items
RECURSIVE Flattened(_)
Flattened(items) ==
  IF items = <<>> THEN <<>>
  ELSE collectionSelector(Head(items)) \o Flattened(Tail(items))

\* C14: draining selectMany(source, collectionSelector) yields the
\* concatenation, in outer order, of the inner sequences, whatever their
\* lengths, empty ones included.
SelectManyFlattens ==
  (Drained("selectMany") /\ heap[last.id].src = 0) =>
    last.array = Flattened(arr)

\* selectMany of an array none of whose inner sequences is empty
SelectManyOfNonEmpty ==
  (/\ Drained("selectMany") /\ heap[last.id].src = 0
   /\ \A i \in DOMAIN arr : collectionSelector(arr[i]) # <<>>) =>
    last.array = Flattened(arr)

\* the results of joining outer element o with the elements of inner, in the
\* order of inner
RECURSIVE Matched(_, _)
Matched(o, inner) ==
  IF inner = <<>> THEN <<>>
  ELSE (IF innerKeySelector(Head(inner)) = outerKeySelector(o)
          THEN <<resultSelector(o, Head(inner))>> ELSE <<>>)
       \o Matched(o, Tail(inner))

\* the results of joining the elements of outer, in order, with inner
RECURSIVE Joined(_, _)
Joined(outer, inner) ==
  IF outer = <<>> THEN <<>>
  ELSE Matched(Head(outer), inner) \o Joined(Tail(outer), inner)

\* C15: draining innerJoin(outer, inner, ...) yields, for each outer element
\* in order, one result for every inner element with an equal key, in inner
\* order; an outer element without a match yields nothing and the outer
\* elements after it are still joined.
InnerJoinJoinsAll ==
  (Drained("innerJoin") /\ heap[last.id].src = 0 /\ heap[last.id].second = 0) =>
    last.array = Joined(arr, arr)

\* innerJoin of arrays whose outer elements all have a match
InnerJoinOfMatched ==
  (/\ Drained("innerJoin") /\ heap[last.id].src = 0 /\ heap[last.id].second = 0
   /\ \A i \in DOMAIN arr : Matched(arr[i], arr) # <<>>) =>
    last.array = Joined(arr, arr)

\* the elements of a sequence: what draining it yields
ElementsOf(source) ==
  IF source = 0 THEN arr ELSE toArray(World(heap), source).array

\* the step is a toArray() that returns, on a machine of operator op that
\* had never been advanced
Drains(op) ==
  /\ last'.op = "toArray" /\ last'.ret = "ok"
  /\ heap[last'.id].op = op
  /\ obs[last'.id].phase = "new"

\* the elements of inner whose key is that of outer element o
KeyedLike(o, inner) ==
  SelectSeq(inner, LAMBDA i : innerKeySelector(i) = outerKeySelector(o))

\* one result per element of outer, in order, built from the element and
\* the elements of inner with its key
GroupJoined(outer, inner) ==
  [k \in DOMAIN outer |-> groupResultSelector(outer[k], KeyedLike(outer[k], inner))]

\* C16: draining groupJoin(outer, inner, ...) yields exactly one result per
\* outer element, in outer order, built from that element and the sequence
\* of all inner elements with an equal key, empty when there is none.
GroupJoinPairsAll ==
  [][Drains("groupJoin") =>
       last'.array = GroupJoined(ElementsOf(heap[last'.id].src),
                                 ElementsOf(heap[last'.id].second))]_vars

\* no machine is upstream of both sources of machine q
RECURSIVE Upstream(_)
Upstream(source) ==
  IF source = 0 THEN {}
  ELSE {source} \cup Upstream(heap[source].src) \cup Upstream(heap[source].second)
Unshared(q) == Upstream(heap[q].src) \cap Upstream(heap[q].second) = {}

\* groupJoin of sequences that share no cursor
GroupJoinOfUnshared ==
  [][(Drains("groupJoin") /\ Unshared(last'.id)) =>
       last'.array = GroupJoined(ElementsOf(heap[last'.id].src),
                                 ElementsOf(heap[last'.id].second))]_vars

\* C19: draining chain(first, second) yields the elements of first in order
\* and then the elements of second in order.
ChainYieldsBoth ==
  [][Drains("chain") =>
       last'.array = ElementsOf(heap[last'.id].src) \o ElementsOf(heap[last'.id].second)]_vars

\* chain of sequences that share no cursor
ChainOfUnshared ==
  [][(Drains("chain") /\ Unshared(last'.id)) =>
       last'.array = ElementsOf(heap[last'.id].src) \o ElementsOf(heap[last'.id].second)]_vars

\* in every pass a chain cursor has yielded what it pulled from the cursor of
\* first followed by what it pulled from the cursor of second, and it pulls
\* nothing from first once it has pulled from second
ChainInOrder ==
  [][\A id \in Objs : heap'[id].op = "chain" =>
       /\ heap'[id].out = heap'[id].pulled \o heap'[id].pulled2
       /\ (heap[id].pulled2 # <<>> /\ heap'[id].state # Setup /\ heap[id].state # Setup)
            => heap'[id].pulled = heap[id].pulled]_vars

\* the positions of items at which a key occurs for the first time
FirstOccurrences(items) ==
  {i \in DOMAIN items :
     \A j \in 1..(i - 1) : innerKeySelector(items[j]) # innerKeySelector(items[i])}

\* the n-th smallest member of a set of numbers
RECURSIVE Nth(_, _)
Nth(S, n) == IF n = 1 THEN Min(S) ELSE Nth(S \ {Min(S)}, n - 1)

\* the groupings of items: one per key, in the order in which the keys first
\* occur, each with the elements of that key in the order of items
Grouped(items) ==
  [k \in 1..Cardinality(FirstOccurrences(items)) |->
     LET key == innerKeySelector(items[Nth(FirstOccurrences(items), k)]) IN
     [key |-> key,
      elements |-> SelectSeq(items, LAMBDA v : innerKeySelector(v) = key)]]

\* C17: Lookup.create lists the groups in the order in which their keys
\* first occur in the source, the elements of each group in source order.
LookupKeepsOrder ==
  (last.op = "Lookup.create" /\ last.ret = "ok") => lookup.groupings = Grouped(arr)

\* C17 witness: a lookup of two groups made, the key that occurs first being
\* the larger one.
LookupOfTwoGroups ==
  /\ last.op = "Lookup.create" /\ last.ret = "ok"
  /\ Len(lookup.groupings) = 2
  /\ lookup.groupings[1].key > lookup.groupings[2].key

\* C18: once Lookup.create has returned, the list of groups of the lookup
\* and the elements of each group never change.
LookupNeverChanges ==
  lookup.made => lookup.groupings = lookup.created

\* what an append cursor has yielded in a pass: the elements pulled from the
\* source, and after them the element once it has been returned
AppendedOnce(o) ==
  /\ o.out = IF o.hasReturned THEN Append(o.pulled, o.element) ELSE o.pulled
  /\ o.src = 0 => o.pulled = SubSeq(arr, 1, Len(o.pulled))
  /\ (o.src = 0 /\ o.hasReturned) => o.pulled = arr

\* what a prepend cursor has yielded in a pass: the element, and after it
\* the elements pulled from the source
PrependedOnce(o) ==
  /\ o.out = IF o.isFirst THEN <<>> ELSE <<o.element>> \o o.pulled
  /\ o.isFirst => o.pulled = <<>>
  /\ o.src = 0 => o.pulled = SubSeq(arr, 1, Len(o.pulled))

\* C20: draining append(source, element) yields the elements of the source
\* in order and then the element once; draining prepend(source, element)
\* yields the element once and then the elements of the source in order; in
\* no pass is the element yielded a second time.
AppendsAndPrependsOnce ==
  [][/\ Drains("append") =>
          last'.array = Append(ElementsOf(heap[last'.id].src), heap[last'.id].element)
     /\ Drains("prepend") =>
          last'.array = <<heap[last'.id].element>> \o ElementsOf(heap[last'.id].src)
     /\ \A id \in Objs :
          /\ (heap'[id].op = "append" /\ heap'[id].state # Setup) => AppendedOnce(heap'[id])
          /\ (heap'[id].op = "prepend" /\ heap'[id].state # Setup) => PrependedOnce(heap'[id])
          /\ (heap[id].op \in {"append", "prepend"} /\ obs[id].ended) =>
               (heap'[id].out = heap[id].out /\ Quiet(last'.tr, id, 0))]_vars

\* C20 witness: an append and a prepend, both over the array, have been
\* drained, and one of them is asked again.
AppendedAndAskedAgain ==
  /\ arr # <<>>
  /\ last.op = "moveNext" /\ last.ret = "false" /\ last.was.ended
  /\ \E a, p \in Objs :
       /\ heap[a].op = "append" /\ heap[a].src = 0 /\ heap[a].state = Stop
       /\ heap[a].out = Append(arr, heap[a].element)
       /\ heap[p].op = "prepend" /\ heap[p].src = 0 /\ heap[p].state = Stop
       /\ heap[p].out = <<heap[p].element>> \o arr

\* the results of pairing the elements of first and second position by
\* position, up to the end of the shorter one
Zipped(first, second) ==
  [k \in 1..Min({Len(first), Len(second)}) |-> zipSelector(first[k], second[k])]

\* C21: draining zip(first, second, resultSelector) yields
\* resultSelector(first[i], second[i]) for every position i both have, in
\* order, and then ends; elements of different positions are never paired.
ZipPairsPositions ==
  [][Drains("zip") =>
       last'.array = Zipped(ElementsOf(heap[last'.id].src),
                            ElementsOf(heap[last'.id].second))]_vars

\* zip of sequences that share no cursor
ZipOfUnshared ==
  [][(Drains("zip") /\ Unshared(last'.id)) =>
       last'.array = Zipped(ElementsOf(heap[last'.id].src),
                            ElementsOf(heap[last'.id].second))]_vars

\* the elements of items, but for those equal to an earlier one
RECURSIVE Distinct(_)
Distinct(items) ==
  IF items = <<>> THEN <<>>
  ELSE LET front == SubSeq(items, 1, Len(items) - 1)
           v == items[Len(items)]
       IN IF existsInArray(front, v) THEN Distinct(front)
          ELSE Append(Distinct(front), v)

\* C22: draining union(first, second) yields the elements of first and then
\* those of second, in source order, but for every element equal to one
\* already yielded; no two yielded elements are equal.
UnionYieldsUnique ==
  [][Drains("union") =>
       /\ last'.array = Distinct(ElementsOf(heap[last'.id].src)
                                   \o ElementsOf(heap[last'.id].second))
       /\ \A i, j \in DOMAIN last'.array :
            last'.array[i] = last'.array[j] => i = j]_vars

\* union of sequences that share no cursor
UnionOfUnshared ==
  [][(Drains("union") /\ Unshared(last'.id)) =>
       last'.array = Distinct(ElementsOf(heap[last'.id].src)
                                \o ElementsOf(heap[last'.id].second))]_vars

\* the elements of first equal to no element of second
Without(first, second) ==
  SelectSeq(first, LAMBDA v : ~existsInArray(second, v))

\* the positions of trace tr at which event ev is made on object on
Events(tr, ev, on) == {i \in DOMAIN tr : tr[i] = Trace(on, ev)}

\* in trace tr, second is asked for a cursor once, before machine id makes
\* its first step
EnumeratedOnceBefore(tr, second, id) ==
  /\ Cardinality(Events(tr, "getEnumerator", second)) = 1
  /\ \A i \in Events(tr, "getEnumerator", second) :
       \A j \in Events(tr, "next", id) : i < j

\* C23: draining except(first, second) yields the elements of first, in
\* order, that are equal to no element of second, and second is enumerated
\* once per pass, before the first element of the result is produced.
ExceptYieldsRest ==
  [][Drains("except") =>
       /\ last'.array = Without(ElementsOf(heap[last'.id].src),
                                ElementsOf(heap[last'.id].second))
       /\ heap[last'.id].second \notin {0, heap[last'.id].src} =>
            EnumeratedOnceBefore(last'.tr, heap[last'.id].second, last'.id)]_vars

\* except of sequences that share no cursor
ExceptOfUnshared ==
  [][(Drains("except") /\ Unshared(last'.id)) =>
       /\ last'.array = Without(ElementsOf(heap[last'.id].src),
                                ElementsOf(heap[last'.id].second))
       /\ heap[last'.id].second \notin {0, heap[last'.id].src} =>
            EnumeratedOnceBefore(last'.tr, heap[last'.id].second, last'.id)]_vars

\* the elements of the array held as number n
RECURSIVE Elements(_)
Elements(n) == IF n = 0 THEN <<>> ELSE Append(Elements(n \div 10), n % 10)

\* the concatenation of the arrays of a sequence of arrays
RECURSIVE Concatenated(_)
Concatenated(chunks) ==
  IF chunks = <<>> THEN <<>>
  ELSE Elements(Head(chunks)) \o Concatenated(Tail(chunks))

\* C24: draining chunk(source, size), size >= 1, yields consecutive arrays
\* whose concatenation is the source: each but the last has size elements,
\* the last has between 1 and size, and an empty source yields no array.
ChunkCutsSource ==
  [][Drains("chunk") =>
       LET size == heap[last'.id].size
           chunks == last'.array
       IN /\ Concatenated(chunks) = ElementsOf(heap[last'.id].src)
          /\ \A k \in DOMAIN chunks :
               /\ k < Len(chunks) => Len(Elements(chunks[k])) = size
               /\ Len(Elements(chunks[k])) \in 1..size
          /\ ElementsOf(heap[last'.id].src) = <<>> => chunks = <<>>]_vars

\* C24 witness: a chunk over the array has been drained into a full array
\* followed by a shorter one.
ChunkWithShortTail ==
  /\ Drained("chunk") /\ heap[last.id].src = 0
  /\ Len(last.array) = 2
  /\ Len(Elements(last.array[1])) = 2 /\ Len(Elements(last.array[2])) = 1

\* what the caller of chunkOrDefault gets in place of a short buffer
DefaultOf(o) == IF o.defaultValue = Undefined THEN Null ELSE o.defaultValue

\* the arrays of size elements that items is cut into, the elements left
\* over at the end dropped
RECURSIVE FullChunks(_, _)
FullChunks(items, size) ==
  IF Len(items) < size THEN <<>>
  ELSE <<Digits(SubSeq(items, 1, size))>>
         \o FullChunks(SubSeq(items, size + 1, Len(items)), size)

\* C25: draining chunkOrDefault(source, size, default) never yields an array
\* of fewer than size elements of the source: it yields the full arrays, and
\* one default (null when none was given) in place of the elements left over.
ChunkOrDefaultReplacesTail ==
  [][Drains("chunkOrDefault") =>
       LET size == heap[last'.id].size
           items == ElementsOf(heap[last'.id].src)
       IN last'.array = FullChunks(items, size)
                          \o (IF Len(items) % size = 0 THEN <<>>
                              ELSE <<DefaultOf(heap[last'.id])>>)]_vars

\* C25 witness: a chunkOrDefault over the array, given no default, has been
\* drained into a full array followed by null.
ChunkOrDefaultWithNull ==
  /\ Drained("chunkOrDefault") /\ heap[last.id].src = 0
  /\ Len(arr) = 3
  /\ last.array = <<Digits(SubSeq(arr, 1, 2)), Null>>

\* draining source now would return
Yields(source) == source = 0 \/ toArray(World(heap), source).ret = "ok"

\* the elements a terminal operator given a predicate or none counts as
\* matching
Matching(items, hasPredicate) ==
  IF hasPredicate THEN SelectSeq(items, Matches) ELSE items

\* the predicate of a terminal operator throws on no element of items
Tested(items, hasPredicate) ==
  hasPredicate => \A i \in DOMAIN items : items[i] # ThrowVal

\* C26: single(source, predicate?) returns the element when exactly one
\* element of the source matches (each does when there is no predicate) and
\* fails with an error when none or more than one matches.
SingleReturnsTheOne ==
  [][(/\ last'.op = "single" /\ Yields(last'.id)
      /\ Tested(ElementsOf(last'.id), last'.args[1])) =>
       LET matching == Matching(ElementsOf(last'.id), last'.args[1]) IN
         IF Len(matching) = 1
           THEN last'.ret = "ok" /\ last'.array = matching
           ELSE /\ last'.ret = "throw"
                /\ last'.err = ThrowHelper(
                     IF Len(matching) > 1 THEN "moreThanOneMach"
                     ELSE IF last'.args[1] THEN "noMatch" ELSE "empty")]_vars

\* C26 witness: single with a predicate has returned the one matching
\* element of an array of three.
SingleAmongThree ==
  /\ last.op = "single" /\ last.ret = "ok" /\ last.id = 0 /\ last.args = <<TRUE>>
  /\ Len(arr) = 3 /\ last.array = SelectSeq(arr, Matches)

\* the call just made is operator name on a source that can be drained, the
\* predicate, if any, throwing on none of its elements
Asked(name) ==
  /\ last'.op = name /\ Yields(last'.id)
  /\ Tested(ElementsOf(last'.id), last'.args[1])

\* the call just made returned value
Returned(value) == last'.ret = "ok" /\ last'.array = <<value>>

\* the call just made failed with the error for an argument out of range
FailedOutOfRange ==
  last'.ret = "throw" /\ last'.err = ThrowHelper("argumentOutOfRange")

\* singleOrDefault, firstOrDefault and lastOrDefault return the default (null
\* when none was given) when no element matches, singleOrDefault when more
\* than one does too, and the matching element otherwise
DefaultForNoElement ==
  [][/\ Asked("singleOrDefault") =>
          LET matching == Matching(ElementsOf(last'.id), last'.args[1]) IN
            Returned(IF Len(matching) = 1 THEN matching[1]
                     ELSE getOrDefaultValue(last'.args[2]))
     /\ Asked("firstOrDefault") =>
          LET matching == Matching(ElementsOf(last'.id), last'.args[1]) IN
            Returned(IF Len(matching) > 0 THEN matching[1]
                     ELSE getOrDefaultValue(last'.args[2]))
     /\ Asked("lastOrDefault") =>
          LET matching == Matching(ElementsOf(last'.id), last'.args[1]) IN
            Returned(IF Len(matching) > 0 THEN matching[Len(matching)]
                     ELSE getOrDefaultValue(last'.args[2]))]_vars

\* C27: no ...OrDefault operator turns an argument error into a default: a
\* size or an index out of range makes chunkOrDefault and elementAtOrDefault
\* fail, and an index in range gives the element at it.
OutOfRangeFails ==
  [][/\ (last'.op = "chunkOrDefault" /\ last'.ret = "throw") => FailedOutOfRange
     /\ (last'.op = "chunkOrDefault" /\ last'.ret = "ok") => heap'[last'.id].size >= 1
     /\ (last'.op = "elementAtOrDefault" /\ last'.args[1] < 0) => FailedOutOfRange
     /\ (/\ last'.op = "elementAtOrDefault" /\ Yields(last'.id)
         /\ last'.args[1] + 1 \in DOMAIN ElementsOf(last'.id)) =>
          Returned(ElementsOf(last'.id)[last'.args[1] + 1])]_vars

\* chunkOrDefault fails when the size is out of range
ChunkOrDefaultOutOfRangeFails ==
  [][/\ (last'.op = "chunkOrDefault" /\ last'.ret = "throw") =>
          last'.args[1] <= 0 /\ FailedOutOfRange
     /\ (last'.op = "chunkOrDefault" /\ last'.ret = "ok") => heap'[last'.id].size >= 1]_vars

\* the left fold of accumulator over items, starting from acc
RECURSIVE Fold(_, _)
Fold(items, acc) ==
  IF items = <<>> THEN acc ELSE Fold(Tail(items), accumulator(acc, Head(items)))

\* the elements accumulator was called on in trace tr, in order
RECURSIVE Accumulated(_)
Accumulated(tr) ==
  IF tr = <<>> THEN <<>>
  ELSE (IF Head(tr).ev = "accumulator" THEN <<Head(tr).arg>> ELSE <<>>)
         \o Accumulated(Tail(tr))

\* C28: aggregate(source, accumulator) without seed starts from the first
\* element, calls accumulator once for each later element, in order, never
\* for the first one, and fails with the empty-sequence error when the
\* source is empty.
AggregateStartsFromFirst ==
  [][(last'.op = "aggregate" /\ last'.args = <<Undefined>> /\ Yields(last'.id)) =>
       LET items == ElementsOf(last'.id) IN
         IF items = <<>>
           THEN last'.ret = "throw" /\ last'.err = ThrowHelper("empty")
           ELSE /\ Returned(Fold(Tail(items), Head(items)))
                /\ Accumulated(last'.tr) = Tail(items)]_vars

\* C28 witness: aggregate without seed has folded an array of three
\* elements, not all equal.
AggregateOfThree ==
  /\ last.op = "aggregate" /\ last.args = <<Undefined>> /\ last.ret = "ok"
  /\ last.id = 0 /\ Len(arr) = 3 /\ arr[1] # arr[2]
  /\ last.array = <<Fold(Tail(arr), Head(arr))>>

\* C29: aggregate(source, accumulator, seed) returns the left fold of
\* accumulator over all the elements of the source, in order, from the seed,
\* when the source is not empty, be it the array or a pipeline of operators.
AggregateFoldsFromSeed ==
  [][(/\ last'.op = "aggregate" /\ last'.args # <<Undefined>> /\ Yields(last'.id)
      /\ ElementsOf(last'.id) # <<>>) =>
       Returned(Fold(ElementsOf(last'.id), last'.args[1]))]_vars

\* aggregate with a seed over the array and over an operator result whose
\* source is the array
AggregateOverOneOperator ==
  [][(/\ last'.op = "aggregate" /\ last'.args # <<Undefined>> /\ Yields(last'.id)
      /\ ElementsOf(last'.id) # <<>>
      /\ last'.id # 0 => (heap[last'.id].src = 0 /\ obs[last'.id].phase = "new")) =>
       Returned(Fold(ElementsOf(last'.id), last'.args[1]))]_vars

\* the call just made is sequenceEqual on two sources that can be drained
Compared ==
  /\ last'.op = "sequenceEqual"
  /\ Yields(last'.id) /\ Yields(last'.args[1])

\* two sequences have the same number of elements, equal at each position
PairwiseEqual(xs, ys) ==
  /\ Len(xs) = Len(ys)
  /\ \A i \in DOMAIN xs : equalityComparer(xs[i], ys[i])

\* C30: sequenceEqual(first, second) returns true exactly when the two
\* sequences have the same number of elements and the elements at each
\* position compare equal under the equality comparer, and false otherwise.
SequenceEqualComparesAll ==
  [][Compared =>
       Returned(PairwiseEqual(ElementsOf(last'.id), ElementsOf(last'.args[1])))]_vars

\* sequenceEqual when first has not exactly one element more than second,
\* the two sharing no cursor
SequenceEqualButOneMore ==
  [][(/\ Compared
      /\ Upstream(last'.id) \cap Upstream(last'.args[1]) = {}
      /\ Len(ElementsOf(last'.id)) # Len(ElementsOf(last'.args[1])) + 1) =>
       Returned(PairwiseEqual(ElementsOf(last'.id), ElementsOf(last'.args[1])))]_vars

\* sequenceEqual of sequences that share no cursor says true when first is
\* second followed by one more element
SequenceEqualOneMore ==
  [][(/\ Compared
      /\ Upstream(last'.id) \cap Upstream(last'.args[1]) = {}
      /\ Len(ElementsOf(last'.id)) = Len(ElementsOf(last'.args[1])) + 1
      /\ SubSeq(ElementsOf(last'.id), 1, Len(ElementsOf(last'.args[1])))
           = ElementsOf(last'.args[1])) =>
       Returned(TRUE)]_vars

\* the call just made asked nothing for a cursor and advanced no cursor
NoCursorUsed ==
  \A i \in DOMAIN last'.tr : last'.tr[i].ev \notin {"getEnumerator", "moveNext"}

\* C31: count(source) on an array, Set, Map or string returns its length or
\* size, and calls neither getEnumerator() nor moveNext() on anything.
CountReadsSize ==
  [][(last'.op = "count" /\ last'.id = 0) =>
       /\ Returned(IF last'.args[1] \in {"set", "map"}
                     THEN Cardinality({arr[i] : i \in DOMAIN arr}) ELSE Len(arr))
       /\ NoCursorUsed]_vars

\* C31 witness: count has answered for a Set built from an array that holds
\* one element twice.
CountOfSetWithDuplicate ==
  /\ last.op = "count" /\ last.id = 0 /\ last.args = <<"set">>
  /\ Len(arr) = 2 /\ arr[1] = arr[2]
  /\ last.array = <<1>> /\ last.tr = <<>>

\* the call just made is operator name, without predicate, on the array,
\* which is not empty
OnArrayWithoutPredicate(name) ==
  /\ last'.op = name /\ last'.id = 0 /\ last'.args = <<FALSE>>
  /\ arr # <<>>

\* C32: first(source) and last(source) without a predicate on a non-empty
\* array read index 0 and index length - 1 directly, and do not call
\* getEnumerator() on the array.
FirstAndLastReadIndex ==
  [][/\ OnArrayWithoutPredicate("first") => (Returned(arr[1]) /\ NoCursorUsed)
     /\ OnArrayWithoutPredicate("last") => (Returned(arr[Len(arr)]) /\ NoCursorUsed)]_vars

\* last without a predicate on a non-empty array reads the last index and
\* asks for no cursor; first returns the element at index 0
LastReadsIndex ==
  [][/\ OnArrayWithoutPredicate("first") => Returned(arr[1])
     /\ OnArrayWithoutPredicate("last") => (Returned(arr[Len(arr)]) /\ NoCursorUsed)]_vars

RanOff(o) == o.op = "IndexableIterator" /\ o.idx >= Len(arr)

\* C34: once moveNext() of a cursor of the array has returned false, current
\* still is the last element produced, however many moveNext() calls follow.
CurrentStableAfterEnd ==
  \A id \in Objs :
    (RanOff(heap[id]) /\ arr # <<>>) => indexCurrent(heap[id].idx) = arr[Len(arr)]

\* until moveNext() has returned false, current is the element at the
\* position of the cursor; afterwards it is undefined
CurrentIsIndexed ==
  \A id \in Objs :
    heap[id].op = "IndexableIterator" =>
      indexCurrent(heap[id].idx) =
        IF heap[id].idx \in 0..(Len(arr) - 1) THEN arr[heap[id].idx + 1] ELSE Undefined

\* the positions of trace tr at which method ev of machine id is invoked
Invoked(tr, id, ev) == {i \in DOMAIN tr : tr[i] = Trace(id, ev)}

\* C35: moveNext() on a state machine cursor invokes setup() if and only if
\* the cursor is in state Setup when the call starts, once, and before
\* next(); a call made in state HasNextElement or Stop never invokes setup().
SetupOnlyInSetupState ==
  [][\A id \in Objs :
       (last'.op = "moveNext" /\ last'.id = id) =>
          /\ Cardinality(Invoked(last'.tr, id, "setup"))
               = IF heap[id].state = Setup THEN 1 ELSE 0
          /\ heap[id].state = Setup =>
               /\ Invoked(last'.tr, id, "next") # {}
               /\ \A s \in Invoked(last'.tr, id, "setup") :
                    \A n \in Invoked(last'.tr, id, "next") : s < n]_vars

\* C35 witness: moveNext() on a cursor in state HasNextElement has run next()
\* and returned true, and has not invoked setup().
MovedWithoutSetup ==
  /\ last.op = "moveNext" /\ last.ret = "true"
  /\ last.was.phase = "moved" /\ last.was.staged # Undefined
  /\ Invoked(last.tr, last.id, "next") # {}
  /\ Invoked(last.tr, last.id, "setup") = {}

\* next() of machine id has thrown during the call just made
NextThrew(id) ==
  \E i \in DOMAIN last'.tr : last'.tr[i] = Ev("nextReturn", id, 0, THROWN)

\* C36: if next() throws during moveNext(), the cursor is left in state
\* Stop, and every later moveNext() on it returns false, without running
\* next() or a callback again, until reset() is called.
ThrowLeavesStopped ==
  [][\A id \in Objs :
       /\ NextThrew(id) => heap'[id].state = Stop
       /\ (heap[id].state = Stop /\ last'.op = "moveNext" /\ last'.id = id) =>
            /\ last'.ret = "false"
            /\ Quiet(last'.tr, id, 0)
            /\ heap'[id].state = Stop]_vars

\* C36 witness: a cursor whose predicate had thrown is asked again and
\* answers false.
AskedAfterThrow ==
  /\ last.op = "moveNext" /\ last.ret = "false"
  /\ heap[last.id].op = "where" /\ heap[last.id].state = Stop
  /\ heap[last.id].calls # <<>>
  /\ heap[last.id].calls[Len(heap[last.id].calls)] = ThrowVal
  /\ ~last.was.ended

\* heap object o is what operator name returned for the array and count n
MadeBy(o, name, n) ==
  /\ o.op = name \/ (o.op = "empty" /\ o.by = name)
  /\ o.src = 0 /\ o.count = n

\* machine id has been advanced to its end, and what it yielded is out
Finished(id, out) == obs[id].ended /\ heap[id].out = out

\* C37: for every array and every n >= 0, the elements take(source, n)
\* yields followed by the elements skip(source, n) yields are the elements
\* of the source in order, each in exactly one of the two results.
TakeThenSkipIsSource ==
  \A t, s \in Objs : \A n \in 0..MaxCount :
    (/\ MadeBy(heap[t], "take", n) /\ MadeBy(heap[s], "skip", n)
     /\ obs[t].ended /\ obs[s].ended) =>
       heap[t].out \o heap[s].out = arr

\* take and skip of the array with a count of at least one
TakeThenSkipOfSome ==
  \A t, s \in Objs : \A n \in 1..MaxCount :
    (/\ MadeBy(heap[t], "take", n) /\ MadeBy(heap[s], "skip", n)
     /\ obs[t].ended /\ obs[s].ended) =>
       /\ heap[t].out = SubSeq(arr, 1, Min({n, Len(arr)}))
       /\ heap[s].out = SubSeq(arr, n + 1, Len(arr))

\* skip and take of the array with a count of zero yield nothing
TakeAndSkipOfNone ==
  \A id \in Objs :
    ((MadeBy(heap[id], "take", 0) \/ MadeBy(heap[id], "skip", 0)) /\ obs[id].ended) =>
       heap[id].out = <<>>

\* what takeLast (skipLast otherwise) with count n yields for an array that
\* holds items: the last n elements when it has that many and nothing when
\* it has fewer, all but the last n elements for skipLast
OfArray(op, items, n) ==
  IF op = "takeLast"
    THEN IF Len(items) >= n THEN SubSeq(items, Len(items) - n + 1, Len(items)) ELSE <<>>
    ELSE SubSeq(items, 1, Len(items) - n)

\* the step drains a new machine of takeLast or skipLast whose source is
\* an operator result (the array otherwise) that can be drained
DrainsLastOf(op, ofResult) ==
  /\ Drains(op)
  /\ (heap[last'.id].src # 0) = ofResult
  /\ Yields(heap[last'.id].src)

\* C38: for n >= 1, takeLast(q, n) and skipLast(q, n) yield for an operator
\* result q what they yield for an array that holds the elements q yields.
LastOfResultAsOfArray ==
  [][\A op \in {"takeLast", "skipLast"} :
       DrainsLastOf(op, TRUE) =>
         last'.array = OfArray(op, ElementsOf(heap[last'.id].src), heap[last'.id].count)]_vars

\* takeLast and skipLast of the array
LastOfArray ==
  [][\A op \in {"takeLast", "skipLast"} :
       DrainsLastOf(op, FALSE) =>
         last'.array = OfArray(op, arr, heap[last'.id].count)]_vars

\* takeLast and skipLast of an operator result yield nothing: the count()
\* of their setup has driven the cursor they then read to its end
LastOfResultIsEmpty ==
  [][\A op \in {"takeLast", "skipLast"} :
       DrainsLastOf(op, TRUE) => last'.array = <<>>]_vars

\* the elements of all groupings, group after group
RECURSIVE Placed(_)
Placed(groupings) ==
  IF groupings = <<>> THEN <<>>
  ELSE Head(groupings).elements \o Placed(Tail(groupings))

\* how many times v occurs in items
Occurs(items, v) == Cardinality({i \in DOMAIN items : items[i] = v})

\* C39: in a Lookup built by Lookup.create no two groups have keys that
\* compare equal, every source element is in exactly one group, and the group
\* sizes sum to the number of source elements.
LookupPartitions ==
  lookup.made =>
    /\ \A g, f \in DOMAIN lookup.created :
         g # f => lookup.created[g].key # lookup.created[f].key
    /\ \A v \in Values : Occurs(Placed(lookup.created), v) = Occurs(arr, v)
    /\ Len(Placed(lookup.created)) = Len(arr)

\* C39 witness: a lookup made of two different elements that share a key
LookupOfSharedKey ==
  /\ lookup.made
  /\ Len(lookup.created) = 1
  /\ Len(arr) = 2 /\ arr[1] # arr[2]

\* how many times trace tr has selector fn called on element v
Invocations(tr, fn, v) ==
  Cardinality({i \in DOMAIN tr : tr[i].ev = fn /\ tr[i].on = 0 /\ tr[i].arg = v})

\* the step is a toMap that returns, and it calls selector fn times times
\* for every occurrence of an element in the source
ToMapCalls(fn, times) ==
  (last'.op = "toMap" /\ last'.ret = "ok") =>
    \A v \in Values :
      Invocations(last'.tr, fn, v) = times * Occurs(ElementsOf(last'.id), v)

\* C40: toMap(source, keySelector, valueSelector) invokes keySelector exactly
\* once and valueSelector exactly once for each source element.
ToMapCallsOnce ==
  [][ToMapCalls("keySelector", 1) /\ ToMapCalls("valueSelector", 1)]_vars

\* toMap invokes keySelector twice and valueSelector once for each source
\* element
ToMapCallsKeyTwice ==
  [][ToMapCalls("keySelector", 2) /\ ToMapCalls("valueSelector", 1)]_vars

====
